---- MODULE Spec2Model ----
(***************************************************************************)
(* Model of the remote synchronisation core of the notes application:      *)
(* SyncManager (src/src/sync/SyncManager.cpp) driving GoogleDriveManager   *)
(* (src/src/sync/GoogleDriveManager.cpp) over an asynchronous transport.   *)
(*                                                                         *)
(* Everything runs on one event loop: an action of the model is one event  *)
(* handler run to completion (a public call, a timer firing or one network *)
(* reply being delivered).  Qt signals are direct connections, so an       *)
(* `emit` inside a handler runs the connected slot before the handler      *)
(* continues; handlers are therefore written as operators from a world     *)
(* record to a world record and composed in program order.                 *)
(***************************************************************************)
EXTENDS Bags, FiniteSets, Integers, Sequences, TLC

VARIABLES
    sm,        \* the SyncManager object (its member fields)
    gd,        \* the GoogleDriveManager object (its member fields)
    inflight,  \* bag of network requests sent and not yet answered
    timers,    \* bag of pending QTimer::singleShot callbacks
    remote,    \* the remote drive: root folders, subfolders, files
    db,        \* the local store's folder structure (getFolderStructure)
    disk,      \* files the sync core persists (token file)
    hist,      \* history: signals emitted, requests issued, per call
    budget,    \* remaining environment events (calls, failures)
    config     \* the ConfigLoader singleton, with the environment and the
               \* configuration file it reads

vars == <<sm, gd, inflight, timers, remote, db, disk, hist, budget, config>>

-----------------------------------------------------------------------------
(* Bounds of the model.                                                    *)

\* how many public calls the GUI makes (syncNow, syncAllNotes, smartSync,
\* an auto-sync tick, syncSingleNote, handleNoteChanged, logout, ...)
MaxCalls == 2
\* how many replies the transport may fail
MaxFailures == 1
\* how many times the clock moves the token expiry one stage closer
\* (far, soon, past)
MaxTimeSteps == 2
\* how many times the application is closed and started again
MaxRestarts == 1
\* how many metadata requests are answered without a Location header
MaxPlainReplies == 1
\* how many metadata requests are answered with neither a Location header
\* nor a file id
MaxBareReplies == 1

-----------------------------------------------------------------------------
(* QString values.  A string whose characters matter (note titles, bodies, *)
(* file names) is a sequence of one-character strings; folder names and    *)
(* ids are never taken apart and stay atoms.  The empty id is 0.           *)

NoId == 0

Str_md == <<".", "m", "d">>

IsSpace(c) == c = " "

RECURSIVE TrimLeft(_)
TrimLeft(s) ==
    IF s = <<>> THEN <<>>
    ELSE IF IsSpace(Head(s)) THEN TrimLeft(Tail(s)) ELSE s

RECURSIVE TrimRight(_)
TrimRight(s) ==
    IF s = <<>> THEN <<>>
    ELSE IF IsSpace(s[Len(s)]) THEN TrimRight(SubSeq(s, 1, Len(s) - 1)) ELSE s

\* QString::trimmed()
trimmed(s) == TrimRight(TrimLeft(s))

\* QString::endsWith
endsWith(s, suffix) ==
    /\ Len(s) >= Len(suffix)
    /\ SubSeq(s, Len(s) - Len(suffix) + 1, Len(s)) = suffix

\* metadata["name"] = title + ".md"
FileNameOf(title) == title \o Str_md

\* handleListNotesInFolderResponse: strip a trailing ".md"
TitleOfFileName(noteName) ==
    IF endsWith(noteName, Str_md)
    THEN SubSeq(noteName, 1, Len(noteName) - 3)
    ELSE noteName

\* calculateFileHash: the hex MD5 digest of the body.  A digest is never
\* the empty string and distinct bodies of the model have distinct digests.
calculateFileHash(content) == <<"md5">> \o content

-----------------------------------------------------------------------------
(* QMap<QString,QString> as a function on the set of its keys.             *)

EmptyMap == [k \in {} |-> NoId]

contains(m, k) == k \in DOMAIN m

value(m, k, default) == IF k \in DOMAIN m THEN m[k] ELSE default

insert(m, k, v) == [x \in (DOMAIN m) \cup {k} |-> IF x = k THEN v ELSE m[x]]

\* QMap::keys() is sorted; folder names are atoms, ordered as listed here.
FolderOrder == <<"A", "B", "C">>

keys(m) == SelectSeq(FolderOrder, LAMBDA k : k \in DOMAIN m)

-----------------------------------------------------------------------------
(* QDateTime values.  A valid instant is kept relative to the clock: `at`  *)
(* is "far" (300 s or more ahead), "soon" (less than 300 s ahead) or       *)
(* "past"; `ms` tells whether its milliseconds part is zero (0) or not (1).*)
(* A text is a sequence of fragments, the empty text the empty sequence.   *)

InvalidDateTime == [valid |-> FALSE, at |-> "never", ms |-> 0]

DateTime(at, ms) == [valid |-> TRUE, at |-> at, ms |-> ms]

\* QDateTime::isValid
isValid(d) == d.valid

\* QDateTime::currentDateTime() >= d
hasPassed(d) == d.at = "past"

\* QDateTime::currentDateTime().secsTo(d) < 300
expiresWithin300(d) == d.at \in {"soon", "past"}

\* QDateTime::currentDateTime().addSecs(expiresIn), the clock showing `ms`
addSecs(ms, expiresIn) == DateTime(expiresIn, ms)

\* QDateTime::toString(Qt::ISODate): yyyy-MM-ddTHH:mm:ss, the milliseconds
\* are not written; the text of an invalid QDateTime is empty
toString_ISODate(d) == IF d.valid THEN <<d.at>> ELSE <<>>

\* QDateTime::fromString(text, Qt::ISODate)
fromString_ISODate(text) ==
    IF text = <<>> THEN InvalidDateTime ELSE DateTime(text[1], 0)

-----------------------------------------------------------------------------
(* ConfigLoader.  The environment maps each variable name to its value, or *)
(* to Unset; the configuration file is found or not, and maps each key to  *)
(* the value of its line, or to Unset if it has no such line.              *)

Unset == "<unset>"

EnvNames ==
    {"GOOGLE_DRIVE_CLIENT_ID", "GOOGLE_DRIVE_CLIENT_SECRET",
     "GOOGLE_DRIVE_REDIRECT_URI", "GOOGLE_DRIVE_SCOPE",
     "GOOGLE_DRIVE_SYNC_INTERVAL", "GOOGLE_DRIVE_SYNC_FOLDER"}

FileKeys ==
    {"client_id", "client_secret", "redirect_uri", "scope", "sync_interval",
     "sync_folder"}

\* QString::toInt of the texts of the model: the number written, 0 for a
\* text that is no number
toInt(text) ==
    CASE text = "15" -> 15
      [] text = "30" -> 30
      [] text = "45" -> 45
      [] OTHER -> 0

\* QProcessEnvironment::value(name, defaultValue)
envValue(env, name, defaultValue) ==
    IF env[name] = Unset THEN defaultValue ELSE env[name]

\* the singleton as constructed (static storage, members zero or empty)
ConfigLoaderConstructed(env, file) ==
    [env |-> env, file |-> file, loaded |-> FALSE,
     m_clientId |-> "", m_clientSecret |-> "", m_redirectUri |-> "",
     m_scope |-> "", m_syncInterval |-> 0, m_syncFolderName |-> "",
     m_isValid |-> FALSE, m_validationErrors |-> <<>>]

\* what loadFromEnvironment and loadFromConfigFile return once they have
\* assigned: the essential credentials are there
hasCredentials(c) == c.m_clientId # "" /\ c.m_clientSecret # ""

\* ConfigLoader::loadFromEnvironment
loadFromEnvironment(c) ==
    [c EXCEPT
       !.m_clientId = envValue(c.env, "GOOGLE_DRIVE_CLIENT_ID", ""),
       !.m_clientSecret = envValue(c.env, "GOOGLE_DRIVE_CLIENT_SECRET", ""),
       !.m_redirectUri = envValue(c.env, "GOOGLE_DRIVE_REDIRECT_URI",
                                  "urn:ietf:wg:oauth:2.0:oob"),
       !.m_scope = envValue(c.env, "GOOGLE_DRIVE_SCOPE",
                            "https://www.googleapis.com/auth/drive.file"),
       !.m_syncInterval =
           toInt(envValue(c.env, "GOOGLE_DRIVE_SYNC_INTERVAL", "15")),
       !.m_syncFolderName =
           envValue(c.env, "GOOGLE_DRIVE_SYNC_FOLDER", "Notes App")]

\* ConfigLoader::loadFromConfigFile, the assignments of a file that was
\* found: a key that has a line overwrites its member
loadFromConfigFile(c) ==
    LET line == c.file.lines
    IN [c EXCEPT
          !.m_clientId =
              IF line["client_id"] # Unset THEN line["client_id"] ELSE @,
          !.m_clientSecret =
              IF line["client_secret"] # Unset THEN line["client_secret"] ELSE @,
          !.m_redirectUri =
              IF line["redirect_uri"] # Unset THEN line["redirect_uri"] ELSE @,
          !.m_scope = IF line["scope"] # Unset THEN line["scope"] ELSE @,
          !.m_syncInterval =
              IF line["sync_interval"] # Unset
              THEN toInt(line["sync_interval"]) ELSE @,
          !.m_syncFolderName =
              IF line["sync_folder"] # Unset THEN line["sync_folder"] ELSE @]

\* ConfigLoader::loadFromDefaultConfig
loadFromDefaultConfig(c) ==
    [c EXCEPT !.m_clientId = "", !.m_clientSecret = "",
              !.m_redirectUri = "urn:ietf:wg:oauth:2.0:oob",
              !.m_scope = "https://www.googleapis.com/auth/drive.file",
              !.m_syncInterval = 15,
              !.m_syncFolderName = "Notes App"]

\* ConfigLoader::validateConfig
validateConfig(c) ==
    LET errors ==
            (IF c.m_clientId = "" THEN <<"Client ID is missing">> ELSE <<>>)
         \o (IF c.m_clientSecret = ""
             THEN <<"Client Secret is missing">> ELSE <<>>)
         \o (IF c.m_redirectUri = ""
             THEN <<"Redirect URI is missing">> ELSE <<>>)
         \o (IF c.m_scope = "" THEN <<"Scope is missing">> ELSE <<>>)
         \o (IF c.m_syncInterval <= 0
             THEN <<"Sync interval must be positive">> ELSE <<>>)
         \o (IF c.m_syncFolderName = ""
             THEN <<"Sync folder name is missing">> ELSE <<>>)
    IN [c EXCEPT !.m_validationErrors = errors, !.m_isValid = errors = <<>>]

\* ConfigLoader::loadConfig; it returns m_isValid of the result
loadConfig(c) ==
    LET c1 == loadFromEnvironment(
                  [c EXCEPT !.m_isValid = FALSE, !.m_validationErrors = <<>>])
    IN validateConfig(
           IF hasCredentials(c1) THEN c1
           ELSE IF c1.file.found /\ hasCredentials(loadFromConfigFile(c1))
           THEN loadFromConfigFile(c1)
           ELSE IF c1.file.found
           THEN loadFromDefaultConfig(loadFromConfigFile(c1))
           ELSE loadFromDefaultConfig(c1))

-----------------------------------------------------------------------------
(* The world: all variables as one record, so that handlers compose.  `now`*)
(* is the milliseconds part the clock shows while the handler runs.        *)

World ==
    [sm |-> sm, gd |-> gd, inflight |-> inflight, timers |-> timers,
     remote |-> remote, db |-> db, disk |-> disk, hist |-> hist,
     budget |-> budget, config |-> config, now |-> 0]

\* sequencing: the rest of a handler, run in the world its first part left
Then(w, rest(_)) == rest(w)

Becomes(w) ==
    /\ sm' = w.sm
    /\ gd' = w.gd
    /\ inflight' = w.inflight
    /\ timers' = w.timers
    /\ remote' = w.remote
    /\ db' = w.db
    /\ disk' = w.disk
    /\ hist' = [w.hist EXCEPT !.cur = 0, !.curUpload = 0]
    /\ budget' = w.budget
    /\ config' = w.config

-----------------------------------------------------------------------------
(* Error texts.  A text is a sequence of fragments; the phrases that the   *)
(* code searches for (QString::contains) are fragments of their own.       *)

Has(msg, phrase) == \E i \in 1..Len(msg) : msg[i] = phrase

\* QNetworkReply::errorString() of a failed reply: HTTP 401, or a
\* transport error.
Err401 == "Host requires authentication"
ErrNet == "Connection refused"
ErrorStrings == {Err401, ErrNet}

FriendlyExpired ==
    <<"Google Drive connection has expired. Please reconnect to Google Drive.">>
FriendlyConnectFirst ==
    <<"Please connect to Google Drive first to sync your notes.">>
FriendlyNoFolder ==
    <<"Google Drive sync folder is not configured. Please check your sync settings.">>
FriendlyEmpty ==
    <<"Cannot sync empty notes. Please add some content to your note first.">>
FriendlySpaces ==
    <<"Cannot sync notes with only spaces. Please add some content to your note first.">>
FriendlyAuthExpired ==
    <<"Google Drive authentication has expired. Please reconnect to Google Drive.">>
FriendlyConnectFailed ==
    <<"Failed to connect to Google Drive. Please check your internet connection and try again.">>
FriendlyGeneric ==
    <<"A sync error occurred. Please try again or reconnect to Google Drive.">>

FriendlyListNotes ==
    <<"Unable to retrieve notes from Google Drive. Please check your connection and try again.">>
FriendlyCreateFolder ==
    <<"Unable to create folder in Google Drive. Please check your permissions and try again.">>
FriendlyCreateSubfolder ==
    <<"Unable to create subfolder in Google Drive. Please check your permissions and try again.">>
FriendlySearchFolder ==
    <<"Unable to find folder in Google Drive. Please check your sync settings.">>
FriendlyListSubfolders ==
    <<"Unable to retrieve folders from Google Drive. Please check your connection and try again.">>
FriendlyNetwork ==
    <<"Unable to connect to Google Drive. Please check your internet connection and try again.">>

\* makeUserFriendlyError: the first matching phrase decides.  The phrase
\* "Failed to list notes" is part of "Failed to list notes in folder", so
\* the branch of the longer phrase is never taken.
makeUserFriendlyError(technicalError) ==
    IF Has(technicalError, "No refresh token available") THEN FriendlyExpired
    ELSE IF Has(technicalError, "Not authenticated") THEN FriendlyConnectFirst
    ELSE IF Has(technicalError, "No sync folder set") THEN FriendlyNoFolder
    ELSE IF Has(technicalError, "Note content is empty") THEN FriendlyEmpty
    ELSE IF Has(technicalError, "Note content is only whitespace") THEN FriendlySpaces
    ELSE IF Has(technicalError, "No access token available") THEN FriendlyAuthExpired
    ELSE IF Has(technicalError, "Access token expired") THEN FriendlyExpired
    ELSE IF Has(technicalError, "Authentication failed") THEN FriendlyConnectFailed
    ELSE IF Has(technicalError, "Token refresh failed") THEN FriendlyExpired
    ELSE IF \/ Has(technicalError, "Failed to list notes")
            \/ Has(technicalError, "Failed to list notes in folder")
    THEN FriendlyListNotes
    ELSE IF Has(technicalError, "Failed to create folder") THEN FriendlyCreateFolder
    ELSE IF Has(technicalError, "Failed to create subfolder")
    THEN FriendlyCreateSubfolder
    ELSE IF Has(technicalError, "Failed to search for folder")
    THEN FriendlySearchFolder
    ELSE IF Has(technicalError, "Failed to list subfolders")
    THEN FriendlyListSubfolders
    ELSE IF Has(technicalError, "errorString") \/ Has(technicalError, "network")
    THEN FriendlyNetwork
    ELSE FriendlyGeneric

\* The fragments of the model that contain, ignoring case, one of
\* "authentication", "401", "Unauthorized" (SyncManager::onError).
AuthFragments ==
    {Err401,
     "Google Drive authentication has expired. Please reconnect to Google Drive."}

IsAuthenticationError(errorMessage) ==
    \E i \in 1..Len(errorMessage) : errorMessage[i] \in AuthFragments

-----------------------------------------------------------------------------
(* Requests, timers and the history of what a call has caused.             *)
(* Every request and timer carries the tag of the public call whose        *)
(* handler chain sent it (tag 0: construction); the tag is history only,   *)
(* no handler reads it.                                                    *)

Tags == 0..MaxCalls

Request(type) ==
    [type |-> type, tag |-> 0, token |-> NoId, method |-> "GET",
     folderName |-> "", folderId |-> NoId, noteId |-> NoId, fileId |-> NoId,
     title |-> <<>>, content |-> <<>>, sessionUrl |-> <<>>, upload |-> 0]

Timer(kind) ==
    [kind |-> kind, tag |-> 0, fileId |-> NoId, noteId |-> NoId,
     title |-> <<>>, content |-> <<>>, upload |-> 0]

ListTypes == {"list_subfolders", "list_notes_in_folder"}

\* the requests that carry the body of a note (the second phase of an upload)
ContentTypes == {"upload_session", "upload_content"}

\* what the folder/note maps, the flag and the cursor of the drive manager
\* hold (the state clearStructureData resets)
StructureState(g) ==
    <<g.m_subfolderIds, g.m_remoteFolderIds, g.m_remoteNoteIds,
      g.m_remoteNoteHashes, g.m_structureChecked, g.m_pendingFolderStructure,
      g.m_pendingSubfolderIndex>>

\* a request that changes the remote structure: a subfolder, or a note
IsMutation(r) == r.type \in {"create_subfolder", "upload_metadata"}

CountInFlight(bag, types) ==
    LET rs == {r \in BagToSet(bag) : r.type \in types}
        RECURSIVE Sum(_)
        Sum(S) == IF S = {} THEN 0
                  ELSE LET r == CHOOSE x \in S : TRUE
                       IN CopiesIn(r, bag) + Sum(S \ {r})
    IN Sum(rs)

\* QNetworkAccessManager::get/post/put followed by trackRequest.  The
\* history keeps, per call, the mutation requests in the order issued and
\* what held when each was issued.
send(w, req) ==
    LET u == IF req.type = "upload_metadata" THEN Len(w.hist.uploads) + 1
             ELSE IF req.type \in ContentTypes THEN w.hist.curUpload
             ELSE 0
        r == [req EXCEPT !.tag = w.hist.cur, !.upload = u]
        entry == [type |-> r.type, method |-> r.method,
                  name |-> IF r.type = "create_subfolder"
                           THEN <<r.folderName>> ELSE r.title,
                  noteId |-> r.noteId,
                  parent |-> r.folderId,
                  afterFail |-> w.hist.failed[r.tag] > 0,
                  discovered |-> /\ w.gd.m_structureChecked
                                 /\ CountInFlight(w.inflight, ListTypes) = 0]
    IN [w EXCEPT !.inflight = @ (+) SetToBag({r}),
                 !.hist.issued[r.tag] =
                     IF IsMutation(r) THEN Append(@, entry) ELSE @,
                 !.hist.uploads =
                     IF r.type = "upload_metadata"
                     THEN Append(@, [answer |-> "none", puts |-> <<>>,
                                     done |-> 0])
                     ELSE IF r.type \in ContentTypes /\ u # 0
                     THEN [@ EXCEPT ![u].puts =
                              Append(@, [type |-> r.type, token |-> r.token,
                                         after |-> w.hist.uploads[u].answer])]
                     ELSE @]

\* QTimer::singleShot
singleShot(w, timer) ==
    [w EXCEPT !.timers =
         @ (+) SetToBag({[timer EXCEPT !.tag = w.hist.cur,
                                       !.upload = w.hist.curUpload]})]

\* signals of SyncManager, observed by the GUI
emit_syncStarted(w) == [w EXCEPT !.hist.started[w.hist.cur] = @ + 1]

emit_syncCompleted(w) ==
    [w EXCEPT !.hist.completed[w.hist.cur] = @ + 1,
              !.hist.completions =
                  @ \cup {[tag |-> w.hist.cur,
                           isSyncing |-> w.sm.m_isSyncing,
                           pending |-> {r.type : r \in
                               {x \in BagToSet(w.inflight) :
                                   x.tag = w.hist.cur}}]}]

emit_syncFailed(w, error) ==
    [w EXCEPT !.hist.failed[w.hist.cur] = @ + 1,
              !.hist.lastError = error]

-----------------------------------------------------------------------------
(* SyncManager: the slots that call nothing back into the drive manager.   *)

\* SyncManager::onError
onError(w, errorMessage) ==
    [(IF IsAuthenticationError(errorMessage)
      THEN singleShot(
             emit_syncFailed(w,
               <<"Authentication failed. Please re-authenticate with Google Drive.">>),
             Timer("forceReauthenticate"))
      ELSE emit_syncFailed(w, errorMessage))
     EXCEPT !.sm.m_isSyncing = FALSE]

\* SyncManager::stopAutoSync
stopAutoSync(w) ==
    [w EXCEPT !.sm.m_autoSyncEnabled = FALSE, !.sm.m_autoSyncTimer = FALSE]

\* SyncManager::saveSyncState
saveSyncState(w) ==
    [w EXCEPT !.disk.last_sync = w.sm.m_lastSyncTime,
              !.disk.auto_sync_enabled = w.sm.m_autoSyncEnabled]

\* SyncManager::loadSyncState
loadSyncState(s, file) ==
    [s EXCEPT !.m_lastSyncTime = file.last_sync,
              !.m_autoSyncEnabled = file.auto_sync_enabled]

\* SyncManager::updateSyncTimestamp
updateSyncTimestamp(w) ==
    saveSyncState([w EXCEPT !.sm.m_lastSyncTime = "valid"])

\* GoogleDriveManager::clearStructureData
GD_clearStructureData(w) ==
    [w EXCEPT !.gd.m_subfolderIds = EmptyMap,
              !.gd.m_remoteFolderIds = EmptyMap,
              !.gd.m_remoteNoteIds = EmptyMap,
              !.gd.m_remoteNoteHashes = EmptyMap,
              !.gd.m_structureChecked = FALSE,
              !.gd.m_pendingFolderStructure = <<>>,
              !.gd.m_pendingSubfolderIndex = 0]

\* SyncManager::clearStructureData
SM_clearStructureData(w) == GD_clearStructureData(w)

\* SyncManager::checkSyncCompletion
checkSyncCompletion(w) ==
    IF /\ w.sm.m_pendingUploads = <<>>
       /\ w.sm.m_pendingDownloads = <<>>
       /\ w.sm.m_pendingDeletes = <<>>
    THEN Then(SM_clearStructureData(updateSyncTimestamp(
                  [w EXCEPT !.sm.m_isSyncing = FALSE])),
              LAMBDA w3 :
                  IF ~w3.sm.m_syncCompletedEmitted
                  THEN [emit_syncCompleted(w3) EXCEPT
                            !.sm.m_syncCompletedEmitted = TRUE]
                  ELSE w3)
    ELSE w

\* SyncManager::onUploadComplete (emit noteUploaded, then checkSyncCompletion)
onUploadComplete(w, noteId, success) == checkSyncCompletion(w)

\* onDownloadComplete as it would be if it stored the downloaded body in
\* the local store
onDownloadComplete_saving(w, noteId, content, success) ==
    checkSyncCompletion(IF success
                        THEN [w EXCEPT !.db[1][2][1][2] = content]
                        ELSE w)

\* SyncManager::onDownloadComplete (emit noteDownloaded, then
\* checkSyncCompletion)
onDownloadComplete(w, noteId, content, success) == checkSyncCompletion(w)

\* SyncManager::onDeleteComplete (the id maps it updates are read by no
\* handler of the model)
onDeleteComplete(w, noteId, success) == checkSyncCompletion(w)

\* SyncManager::onSmartSyncComplete
onSmartSyncComplete(w) ==
    Then(SM_clearStructureData(updateSyncTimestamp(
             [w EXCEPT !.sm.m_isSyncing = FALSE])),
         LAMBDA w3 :
             IF ~w3.sm.m_syncCompletedEmitted
             THEN [emit_syncCompleted(w3) EXCEPT
                       !.sm.m_syncCompletedEmitted = TRUE]
             ELSE w3)

\* SyncManager::compareNotes
compareNotes(w, remoteNotes) ==
    Then(updateSyncTimestamp([w EXCEPT !.sm.m_isSyncing = FALSE]),
         LAMBDA w2 :
             IF ~w2.sm.m_syncCompletedEmitted
             THEN [emit_syncCompleted(w2) EXCEPT
                       !.sm.m_syncCompletedEmitted = TRUE]
             ELSE w2)

\* SyncManager::onNotesListReceived
onNotesListReceived(w, notes) == compareNotes(w, notes)

-----------------------------------------------------------------------------
(* GoogleDriveManager: tokens and authentication.                          *)

RECURSIVE onAuthenticationChanged(_, _)

\* the signal GoogleDriveManager::error, connected to SyncManager::onError
emit_error(w, errorMessage) == onError(w, errorMessage)

\* the signal GoogleDriveManager::authenticationChanged
emit_authenticationChanged(w, authenticated) ==
    onAuthenticationChanged(w, authenticated)

\* saveTokens as it would be if it wrote the two tokens only
saveTokens_withoutExpiry(w) ==
    [w EXCEPT !.disk.access_token = w.gd.m_accessToken,
              !.disk.refresh_token = w.gd.m_refreshToken]

\* GoogleDriveManager::saveTokens
saveTokens(w) ==
    [w EXCEPT !.disk.access_token = w.gd.m_accessToken,
              !.disk.refresh_token = w.gd.m_refreshToken,
              !.disk.expiry = toString_ISODate(w.gd.m_tokenExpiry)]

\* refreshToken as it would be without the test of m_refreshToken
refreshToken_unguarded(w) ==
    send(w, [Request("token_refresh") EXCEPT
                 !.method = "POST", !.token = w.gd.m_refreshToken])

\* GoogleDriveManager::refreshToken
refreshToken(w) ==
    IF w.gd.m_refreshToken = NoId
    THEN emit_error(w, makeUserFriendlyError(<<"No refresh token available">>))
    ELSE send(w, [Request("token_refresh") EXCEPT
                      !.method = "POST", !.token = w.gd.m_refreshToken])

\* GoogleDriveManager::refreshTokenIfNeeded (it reaches itself again through
\* authenticationChanged)
RECURSIVE refreshTokenIfNeeded(_)
refreshTokenIfNeeded(w) ==
    Then(IF isValid(w.gd.m_tokenExpiry)
            /\ expiresWithin300(w.gd.m_tokenExpiry)
         THEN refreshToken(w)
         ELSE w,
         LAMBDA w1 :
             IF isValid(w1.gd.m_tokenExpiry) /\ hasPassed(w1.gd.m_tokenExpiry)
             THEN IF w1.gd.m_refreshToken # NoId
                  THEN refreshToken(w1)
                  ELSE emit_error(
                           emit_authenticationChanged(
                               [w1 EXCEPT !.gd.m_isAuthenticated = FALSE,
                                          !.hist.authFailures =
                                              Append(@, "expired")],
                               FALSE),
                           makeUserFriendlyError(
                               <<"Access token expired",
                                 " and no refresh token available. Please re-authenticate.">>))
             ELSE w1)

\* GoogleDriveManager::isAuthenticated: what the call does ...
isAuthenticated_call(w) ==
    IF /\ w.gd.m_isAuthenticated
       /\ w.gd.m_accessToken # NoId
       /\ isValid(w.gd.m_tokenExpiry)
       /\ hasPassed(w.gd.m_tokenExpiry)
    THEN refreshTokenIfNeeded(w)
    ELSE w

\* ... and what it returns, in the state the call has left
isAuthenticated(w) == w.gd.m_isAuthenticated /\ w.gd.m_accessToken # NoId

\* GoogleDriveManager::addAuthHeader; the request then carries
\* m_accessToken of the resulting state (none if that is empty)
addAuthHeader(w) ==
    IF w.gd.m_accessToken # NoId
    THEN IF isValid(w.gd.m_tokenExpiry) /\ hasPassed(w.gd.m_tokenExpiry)
         THEN refreshTokenIfNeeded(w)
         ELSE w
    ELSE emit_error(w, makeUserFriendlyError(
             <<"No access token available",
               ". Please authenticate with Google Drive first.">>))

\* an authenticated request: addAuthHeader, then get/post/put.  The history
\* counts the requests that leave with an expired token while a refresh is
\* under way.
sendAuthenticated(w, req) ==
    Then(addAuthHeader(w),
         LAMBDA w1 :
             send([w1 EXCEPT !.hist.staleSent =
                      IF /\ w1.gd.m_accessToken # NoId
                         /\ isValid(w1.gd.m_tokenExpiry)
                         /\ hasPassed(w1.gd.m_tokenExpiry)
                         /\ CountInFlight(w1.inflight, {"token_refresh"}) > 0
                      THEN @ + 1 ELSE @],
                  [req EXCEPT !.token = w1.gd.m_accessToken]))

NotAuthenticatedError == makeUserFriendlyError(<<"Not authenticated">>)

\* GoogleDriveManager::listNotes
listNotes(w) ==
    Then(isAuthenticated_call(w), LAMBDA w1 :
         IF ~isAuthenticated(w1) THEN emit_error(w1, NotAuthenticatedError)
         ELSE IF w1.gd.m_syncFolderId = NoId THEN w1
         ELSE sendAuthenticated(w1, [Request("list") EXCEPT
                                         !.folderId = w1.gd.m_syncFolderId]))

\* GoogleDriveManager::findExistingNotesFolder
findExistingNotesFolder(w) ==
    Then(isAuthenticated_call(w), LAMBDA w1 :
         IF ~isAuthenticated(w1) THEN emit_error(w1, NotAuthenticatedError)
         ELSE sendAuthenticated(w1, Request("find_folder")))

\* GoogleDriveManager::createNotesFolder
createNotesFolder(w) ==
    Then(isAuthenticated_call(w), LAMBDA w1 :
         IF ~isAuthenticated(w1) THEN emit_error(w1, NotAuthenticatedError)
         ELSE findExistingNotesFolder(w1))

\* GoogleDriveManager::createNewNotesFolder
createNewNotesFolder(w) ==
    Then(isAuthenticated_call(w), LAMBDA w1 :
         IF ~isAuthenticated(w1) THEN emit_error(w1, NotAuthenticatedError)
         ELSE sendAuthenticated(w1, [Request("create_folder") EXCEPT
                                         !.method = "POST"]))

-----------------------------------------------------------------------------
(* SyncManager: starting a sync.                                           *)

\* SyncManager::syncNow
syncNow(w) ==
    IF w.sm.m_isSyncing THEN w
    ELSE Then(isAuthenticated_call(w), LAMBDA w1 :
              IF ~isAuthenticated(w1)
              THEN emit_syncFailed(w1, <<"Not authenticated with Google Drive">>)
              ELSE listNotes(emit_syncStarted(
                       [w1 EXCEPT !.sm.m_isSyncing = TRUE,
                                  !.sm.m_syncCompletedEmitted = FALSE])))

\* SyncManager::performAutoSync
performAutoSync(w) ==
    IF w.sm.m_autoSyncEnabled /\ ~w.sm.m_isSyncing
    THEN syncNow([w EXCEPT !.sm.m_syncCompletedEmitted = FALSE])
    ELSE w

\* SyncManager::startAutoSync
startAutoSync(w) ==
    Then(isAuthenticated_call(
             [w EXCEPT !.sm.m_autoSyncEnabled = TRUE,
                       !.sm.m_syncCompletedEmitted = FALSE]),
         LAMBDA w1 :
             IF isAuthenticated(w1)
             THEN performAutoSync([w1 EXCEPT !.sm.m_autoSyncTimer = TRUE])
             ELSE w1)

\* SyncManager::onAuthenticationChanged (and its own authenticationChanged)
onAuthenticationChanged(w, authenticated) ==
    [(IF authenticated
      THEN Then(createNotesFolder(
                    [w EXCEPT !.sm.m_syncCompletedEmitted = FALSE]),
                LAMBDA w1 :
                    IF w1.sm.m_autoSyncEnabled THEN startAutoSync(w1) ELSE w1)
      ELSE [stopAutoSync(w) EXCEPT !.sm.m_syncCompletedEmitted = FALSE])
     EXCEPT !.hist.authenticationChanged = Append(@, authenticated)]

-----------------------------------------------------------------------------
(* GoogleDriveManager: uploads and the reconciler.                         *)
(* A folder structure is a sequence of pairs <<folderName, notes>>, notes  *)
(* a sequence of pairs <<title, body>> (QPair first, second).              *)

\* GoogleDriveManager::uploadNoteToFolder
uploadNoteToFolder(w, noteId, content, title, folderId) ==
    Then(isAuthenticated_call(w), LAMBDA w1 :
         IF ~isAuthenticated(w1) THEN emit_error(w1, NotAuthenticatedError)
         ELSE IF folderId = NoId
         THEN emit_error(w1, <<"No folder ID specified for upload">>)
         ELSE IF content = <<>>
         THEN emit_error(w1, makeUserFriendlyError(<<"Note content is empty">>))
         ELSE IF trimmed(content) = <<>>
         THEN emit_error(w1, makeUserFriendlyError(
                  <<"Note content is only whitespace">>))
         ELSE sendAuthenticated(w1,
                  [Request("upload_metadata") EXCEPT
                       !.method = IF noteId = NoId THEN "POST" ELSE "PUT",
                       !.content = content, !.title = title,
                       !.folderId = folderId, !.noteId = noteId]))

\* GoogleDriveManager::uploadNote
uploadNote(w, noteId, content, title) ==
    Then(isAuthenticated_call(w), LAMBDA w1 :
         IF ~isAuthenticated(w1) THEN emit_error(w1, NotAuthenticatedError)
         ELSE IF w1.gd.m_syncFolderId = NoId
         THEN emit_error(w1, makeUserFriendlyError(
                  <<"No sync folder set", " for upload">>))
         ELSE IF content = <<>>
         THEN emit_error(w1, makeUserFriendlyError(<<"Note content is empty">>))
         ELSE IF trimmed(content) = <<>>
         THEN emit_error(w1, makeUserFriendlyError(
                  <<"Note content is only whitespace">>))
         ELSE IF trimmed(content) = trimmed(title)
         THEN emit_error(w1,
                  <<"Note content is just the title - this indicates an error in content passing">>)
         ELSE sendAuthenticated(w1,
                  [Request("upload_metadata") EXCEPT
                       !.method = IF noteId = NoId THEN "POST" ELSE "PUT",
                       !.content = content, !.title = title,
                       !.folderId = w1.gd.m_syncFolderId, !.noteId = noteId]))

\* GoogleDriveManager::createNote
createNote(w, title, content) == uploadNote(w, NoId, content, title)

\* GoogleDriveManager::downloadNote
downloadNote(w, noteId) ==
    Then(isAuthenticated_call(w), LAMBDA w1 :
         IF ~isAuthenticated(w1) THEN emit_error(w1, NotAuthenticatedError)
         ELSE sendAuthenticated(w1, [Request("download") EXCEPT
                                         !.noteId = noteId]))

\* GoogleDriveManager::deleteNote
deleteNote(w, noteId) ==
    Then(isAuthenticated_call(w), LAMBDA w1 :
         IF ~isAuthenticated(w1) THEN emit_error(w1, NotAuthenticatedError)
         ELSE sendAuthenticated(w1, [Request("delete") EXCEPT
                                         !.method = "DELETE",
                                         !.noteId = noteId]))

\* the decision for one note without the hash comparison
uploadDecision_unconditional(w, note, subfolderId) ==
    uploadNoteToFolder(w, value(w.gd.m_remoteNoteIds, note[1], NoId),
                       note[2], note[1], subfolderId)

\* GoogleDriveManager::startNoteUploads, the decision for one note
uploadDecision(w, note, subfolderId) ==
    LET title == note[1]
        content == note[2]
    IN IF contains(w.gd.m_remoteNoteIds, title)
       THEN LET existingNoteId == w.gd.m_remoteNoteIds[title]
                existingHash == value(w.gd.m_remoteNoteHashes, title, <<>>)
                newHash == calculateFileHash(content)
            IN IF existingHash # newHash
               THEN uploadNoteToFolder(w, existingNoteId, content, title,
                                       subfolderId)
               ELSE w
       ELSE uploadNoteToFolder(w, NoId, content, title, subfolderId)

RECURSIVE uploadNotesFrom(_, _, _, _)
uploadNotesFrom(w, notes, i, subfolderId) ==
    IF i > Len(notes) THEN w
    ELSE uploadNotesFrom(uploadDecision(w, notes[i], subfolderId),
                         notes, i + 1, subfolderId)

RECURSIVE startNoteUploadsFrom(_, _, _)
startNoteUploadsFrom(w, structure, i) ==
    IF i > Len(structure) THEN w
    ELSE LET folderName == structure[i][1]
             notes == structure[i][2]
             w1 == IF contains(w.gd.m_subfolderIds, folderName)
                   THEN uploadNotesFrom(w, notes, 1,
                                        w.gd.m_subfolderIds[folderName])
                   ELSE w
         IN startNoteUploadsFrom(w1, structure, i + 1)

\* GoogleDriveManager::startNoteUploads
startNoteUploads(w) ==
    startNoteUploadsFrom(w, w.gd.m_pendingFolderStructure, 1)

\* GoogleDriveManager::createFolder
createFolder(w, folderName) ==
    Then(isAuthenticated_call(w), LAMBDA w1 :
         IF ~isAuthenticated(w1) THEN emit_error(w1, NotAuthenticatedError)
         ELSE IF w1.gd.m_syncFolderId = NoId
         THEN emit_error(w1, <<"No sync folder set", " for folder creation">>)
         ELSE sendAuthenticated(w1,
                  [Request("create_subfolder") EXCEPT
                       !.method = "POST", !.folderName = folderName,
                       !.folderId = w1.gd.m_syncFolderId]))

\* GoogleDriveManager::createNextSubfolder
RECURSIVE createNextSubfolder(_)
createNextSubfolder(w) ==
    IF w.gd.m_pendingSubfolderIndex >= Len(w.gd.m_pendingFolderStructure)
    THEN startNoteUploads(w)
    ELSE LET folderName ==
                 w.gd.m_pendingFolderStructure[w.gd.m_pendingSubfolderIndex + 1][1]
         IN IF contains(w.gd.m_subfolderIds, folderName)
            THEN createNextSubfolder(
                     [w EXCEPT !.gd.m_pendingSubfolderIndex = @ + 1])
            ELSE createFolder(w, folderName)

\* GoogleDriveManager::listSubfolders
listSubfolders(w) ==
    Then(isAuthenticated_call(w), LAMBDA w1 :
         IF ~isAuthenticated(w1) THEN emit_error(w1, NotAuthenticatedError)
         ELSE sendAuthenticated(w1, [Request("list_subfolders") EXCEPT
                                         !.folderId = w1.gd.m_syncFolderId]))

\* GoogleDriveManager::listNotesInFolder
listNotesInFolder(w, folderId, folderName) ==
    Then(isAuthenticated_call(w), LAMBDA w1 :
         IF ~isAuthenticated(w1) THEN emit_error(w1, NotAuthenticatedError)
         ELSE sendAuthenticated(w1, [Request("list_notes_in_folder") EXCEPT
                                         !.folderId = folderId,
                                         !.folderName = folderName]))

\* GoogleDriveManager::checkExistingStructure
checkExistingStructure(w) == listSubfolders(w)

\* GoogleDriveManager::createSubfoldersAndUploadNotes
createSubfoldersAndUploadNotes(w, folderStructure) ==
    IF w.gd.m_syncFolderId = NoId
    THEN emit_error(w, <<"No sync folder ID set for subfolder creation">>)
    ELSE Then([w EXCEPT !.gd.m_subfolderIds = EmptyMap,
                        !.gd.m_remoteFolderIds = EmptyMap,
                        !.gd.m_remoteNoteIds = EmptyMap,
                        !.gd.m_remoteNoteHashes = EmptyMap,
                        !.gd.m_structureChecked = FALSE,
                        !.gd.m_pendingFolderStructure = folderStructure],
              LAMBDA w1 :
                  IF w1.gd.m_structureChecked /\ w1.gd.m_subfolderIds # EmptyMap
                  THEN startNoteUploads(w1)
                  ELSE checkExistingStructure(
                           [w1 EXCEPT !.gd.m_pendingSubfolderIndex = 0]))

\* GoogleDriveManager::setSyncFolder
setSyncFolder(w, folderId) == [w EXCEPT !.gd.m_syncFolderId = folderId]

\* DatabaseManager::getFolderStructure
getFolderStructure(w) == w.db

\* SyncManager::onFolderCreated
onFolderCreated(w) ==
    Then(setSyncFolder([w EXCEPT !.sm.m_syncFolderId = w.gd.m_syncFolderId],
                       w.gd.m_syncFolderId),
         LAMBDA w2 :
    Then(IF ~w2.sm.m_syncCompletedEmitted
         THEN [emit_syncCompleted(w2) EXCEPT !.sm.m_syncCompletedEmitted = TRUE]
         ELSE w2,
         LAMBDA w3 :
             IF w3.sm.m_isSyncing
             THEN createSubfoldersAndUploadNotes(w3, getFolderStructure(w3))
             ELSE IF w3.sm.m_autoSyncEnabled THEN syncNow(w3)
             ELSE w3))

\* the signals GoogleDriveManager::syncComplete, smartSyncComplete,
\* uploadComplete, notesListReceived and the slots connected to them
emit_syncComplete(w) == onFolderCreated(w)

emit_smartSyncComplete(w) == onSmartSyncComplete(w)

emit_uploadComplete(w, noteId, success) ==
    onUploadComplete([w EXCEPT !.hist.uploads =
                         IF w.hist.curUpload # 0
                         THEN [@ EXCEPT ![w.hist.curUpload].done = @ + 1]
                         ELSE @],
                     noteId, success)

emit_notesListReceived(w, notes) == onNotesListReceived(w, notes)

\* GoogleDriveManager::uploadFolderStructure
uploadFolderStructure(w, folderStructure) ==
    Then(isAuthenticated_call(w), LAMBDA w1 :
         IF ~isAuthenticated(w1) THEN emit_error(w1, NotAuthenticatedError)
         ELSE IF w1.gd.m_syncFolderId = NoId THEN createNotesFolder(w1)
         ELSE createSubfoldersAndUploadNotes(w1, folderStructure))

\* GoogleDriveManager::smartSync
GD_smartSync(w) ==
    Then(isAuthenticated_call(w), LAMBDA w1 :
         IF ~isAuthenticated(w1) THEN emit_error(w1, NotAuthenticatedError)
         ELSE IF w1.gd.m_syncFolderId = NoId
         THEN emit_error(w1, <<"No sync folder set">>)
         ELSE IF ~w1.gd.m_structureChecked THEN checkExistingStructure(w1)
         ELSE emit_syncComplete(w1))

\* GoogleDriveManager::updateNoteIfChanged
updateNoteIfChanged(w, noteId, content, title, folderName) ==
    LET remoteNoteId == value(w.gd.m_remoteNoteIds, title, NoId)
        currentHash == calculateFileHash(content)
        folderId == value(w.gd.m_remoteFolderIds, folderName, NoId)
    IN IF remoteNoteId = NoId
       THEN uploadNoteToFolder(w, NoId, content, title, folderId)
       ELSE IF value(w.gd.m_remoteNoteHashes, title, <<>>) # currentHash
       THEN uploadNoteToFolder(w, remoteNoteId, content, title, folderId)
       ELSE w

\* GoogleDriveManager::syncSingleNote
GD_syncSingleNote(w, noteId, content, title, folderName) ==
    Then(isAuthenticated_call(w), LAMBDA w1 :
         IF ~isAuthenticated(w1) THEN emit_error(w1, NotAuthenticatedError)
         ELSE IF ~contains(w1.gd.m_remoteFolderIds, folderName)
         THEN createFolder(w1, folderName)
         ELSE updateNoteIfChanged(w1, noteId, content, title, folderName))

-----------------------------------------------------------------------------
(* SyncManager: the public operations.                                     *)

\* SyncManager::uploadAllNotes
SM_uploadAllNotes(w) ==
    Then(isAuthenticated_call(w), LAMBDA w0 :
         IF ~isAuthenticated(w0) THEN emit_syncFailed(w0, <<"Not authenticated">>)
         ELSE LET w1 == [w0 EXCEPT !.sm.m_syncCompletedEmitted = FALSE]
                  folderStructure == getFolderStructure(w1)
              IN IF folderStructure = <<>>
                 THEN IF ~w1.sm.m_syncCompletedEmitted
                      THEN [emit_syncCompleted(w1) EXCEPT
                                !.sm.m_syncCompletedEmitted = TRUE]
                      ELSE w1
                 ELSE emit_syncStarted(
                          [uploadFolderStructure(w1, folderStructure) EXCEPT
                               !.sm.m_syncCompletedEmitted = FALSE]))

\* SyncManager::syncAllNotes
syncAllNotes(w) ==
    Then(isAuthenticated_call(w), LAMBDA w0 :
         IF ~isAuthenticated(w0) THEN emit_syncFailed(w0, <<"Not authenticated">>)
         ELSE LET w1 == GD_clearStructureData(
                            [w0 EXCEPT !.sm.m_syncCompletedEmitted = FALSE,
                                       !.hist.newest = w0.hist.cur])
              IN IF w1.sm.m_syncFolderId = NoId
                 THEN createNotesFolder([w1 EXCEPT !.sm.m_isSyncing = TRUE])
                 ELSE SM_uploadAllNotes([w1 EXCEPT !.sm.m_isSyncing = TRUE]))

\* SyncManager::smartSync
SM_smartSync(w) ==
    Then(isAuthenticated_call(w), LAMBDA w0 :
         IF ~isAuthenticated(w0) THEN emit_syncFailed(w0, <<"Not authenticated">>)
         ELSE LET w1 == GD_clearStructureData(
                            [w0 EXCEPT !.sm.m_syncCompletedEmitted = FALSE,
                                       !.hist.newest = w0.hist.cur])
              IN IF w1.sm.m_syncFolderId = NoId
                 THEN createNotesFolder([w1 EXCEPT !.sm.m_isSyncing = TRUE])
                 ELSE GD_smartSync([w1 EXCEPT !.sm.m_isSyncing = TRUE]))

\* SyncManager::syncSingleNote
SM_syncSingleNote(w, noteId, content, title, folderName) ==
    Then(isAuthenticated_call(w), LAMBDA w0 :
         IF ~isAuthenticated(w0) THEN emit_syncFailed(w0, <<"Not authenticated">>)
         ELSE GD_syncSingleNote(w0, noteId, content, title, folderName))

\* SyncManager::handleNoteChanged
handleNoteChanged(w, noteId, content, title, folderName) ==
    Then(isAuthenticated_call(w), LAMBDA w0 :
         IF ~isAuthenticated(w0) THEN w0
         ELSE IF ~w0.gd.m_structureChecked THEN SM_smartSync(w0)
         ELSE GD_syncSingleNote(w0, noteId, content, title, folderName))

\* SyncManager::setAutoSyncEnabled
setAutoSyncEnabled(w, enabled) ==
    Then([w EXCEPT !.sm.m_autoSyncEnabled = enabled], LAMBDA w0 :
    Then(IF enabled THEN isAuthenticated_call(w0) ELSE w0, LAMBDA w1 :
         IF enabled /\ isAuthenticated(w1) THEN startAutoSync(w1)
         ELSE stopAutoSync(w1)))

\* GoogleDriveManager::logout
GD_logout(w) ==
    emit_authenticationChanged(
        saveTokens([w EXCEPT !.gd.m_accessToken = NoId,
                             !.gd.m_refreshToken = NoId,
                             !.gd.m_tokenExpiry = InvalidDateTime,
                             !.gd.m_isAuthenticated = FALSE]),
        FALSE)

\* SyncManager::logout
SM_logout(w) == [GD_logout(w) EXCEPT !.sm.m_syncCompletedEmitted = FALSE]

\* GoogleDriveManager::authenticate: opens the browser unless authenticated;
\* the code comes back through completeOAuth
authenticate(w) ==
    IF w.gd.m_isAuthenticated THEN w
    ELSE [w EXCEPT !.hist.browserOpened = TRUE]

\* GoogleDriveManager::forceReauthenticate
GD_forceReauthenticate(w) ==
    LET w1 == [w EXCEPT !.gd.m_accessToken = NoId,
                        !.gd.m_refreshToken = NoId,
                        !.gd.m_tokenExpiry = InvalidDateTime,
                        !.gd.m_isAuthenticated = FALSE,
                        !.gd.m_structureChecked = FALSE,
                        !.gd.m_remoteNoteHashes = EmptyMap,
                        !.gd.m_remoteNoteIds = EmptyMap,
                        !.gd.m_remoteFolderIds = EmptyMap,
                        !.gd.m_subfolderIds = EmptyMap]
    IN authenticate(emit_authenticationChanged(saveTokens(w1), FALSE))

\* SyncManager::forceReauthenticate
SM_forceReauthenticate(w) ==
    GD_forceReauthenticate([w EXCEPT !.sm.m_isSyncing = FALSE,
                                     !.sm.m_syncCompletedEmitted = FALSE,
                                     !.hist.forced[w.hist.cur] = @ + 1])

\* GoogleDriveManager::requestAccessToken (SyncManager::completeOAuth and
\* GoogleDriveManager::completeOAuth only pass the code on)
requestAccessToken(w, authCode) ==
    send(w, [Request("auth") EXCEPT !.method = "POST", !.token = authCode])

completeOAuth(w, authCode) == requestAccessToken(w, authCode)

-----------------------------------------------------------------------------
(* GoogleDriveManager: the reply handlers.  `req` is the request whose     *)
(* properties the reply carries, `reply` what the server answered:         *)
(* ok (error() == NoError), errorString, and the fields of the body.       *)

Reply(ok, errorString) ==
    [ok |-> ok, errorString |-> errorString, id |-> NoId, name |-> "",
     files |-> <<>>, location |-> <<>>, content |-> <<>>,
     access_token |-> NoId,
     refresh_token |-> NoId, expires_in |-> "far"]

\* GoogleDriveManager::handleAuthResponse
handleAuthResponse(w, req, reply) ==
    IF reply.ok
    THEN emit_authenticationChanged(
             saveTokens([w EXCEPT !.hist.reauthRequired = FALSE,
                                  !.gd.m_accessToken = reply.access_token,
                                  !.gd.m_refreshToken = reply.refresh_token,
                                  !.gd.m_tokenExpiry =
                                      addSecs(w.now, reply.expires_in),
                                  !.gd.m_isAuthenticated = TRUE]),
             TRUE)
    ELSE emit_error(w, makeUserFriendlyError(
             <<"Authentication failed", ": ", reply.errorString>>))

\* handleTokenRefresh as it would be if it stored the refresh token of the
\* response, as handleAuthResponse does
handleTokenRefresh_rotating(w, req, reply) ==
    IF reply.ok
    THEN saveTokens([w EXCEPT !.gd.m_accessToken = reply.access_token,
                              !.gd.m_refreshToken = reply.refresh_token,
                              !.gd.m_tokenExpiry =
                                  addSecs(w.now, reply.expires_in)])
    ELSE LET w1 == emit_error(w, makeUserFriendlyError(
                       <<"Token refresh failed", ": ", reply.errorString>>))
         IN emit_authenticationChanged(
                [w1 EXCEPT !.gd.m_isAuthenticated = FALSE,
                           !.hist.reauthRequired = TRUE], FALSE)

\* GoogleDriveManager::handleTokenRefresh
handleTokenRefresh(w, req, reply) ==
    IF reply.ok
    THEN saveTokens([w EXCEPT !.gd.m_accessToken = reply.access_token,
                              !.gd.m_tokenExpiry =
                                  addSecs(w.now, reply.expires_in)])
    ELSE LET w1 == emit_error(w, makeUserFriendlyError(
                       <<"Token refresh failed", ": ", reply.errorString>>))
         IN emit_authenticationChanged(
                [w1 EXCEPT !.gd.m_isAuthenticated = FALSE,
                           !.hist.reauthRequired = TRUE], FALSE)

\* uploadFileContentToSession as it would be with an auth header
uploadFileContentToSession_signed(w, sessionUrl, content, title, noteId) ==
    sendAuthenticated(w, [Request("upload_session") EXCEPT
                              !.method = "PUT", !.sessionUrl = sessionUrl,
                              !.content = content, !.title = title,
                              !.noteId = noteId])

\* GoogleDriveManager::uploadFileContentToSession
uploadFileContentToSession(w, sessionUrl, content, title, noteId) ==
    IF content = <<>> THEN emit_uploadComplete(w, noteId, FALSE)
    ELSE IF trimmed(content) = <<>> THEN emit_uploadComplete(w, noteId, FALSE)
    ELSE send(w, [Request("upload_session") EXCEPT
                      !.method = "PUT", !.sessionUrl = sessionUrl,
                      !.content = content, !.title = title,
                      !.noteId = noteId])

\* GoogleDriveManager::uploadFileContent
uploadFileContent(w, fileId, content, title, noteId) ==
    LET id == IF noteId = NoId THEN fileId ELSE noteId
    IN IF content = <<>> THEN emit_uploadComplete(w, id, FALSE)
       ELSE IF trimmed(content) = <<>> THEN emit_uploadComplete(w, id, FALSE)
       ELSE sendAuthenticated(w, [Request("upload_content") EXCEPT
                                      !.method = "PUT", !.fileId = fileId,
                                      !.content = content, !.title = title,
                                      !.noteId = noteId])

\* GoogleDriveManager::handleUploadMetadataResponse
handleUploadMetadataResponse(w, req, reply) ==
    LET noteId == req.noteId
        content == req.content
        title == req.title
    IN IF reply.ok
       THEN IF reply.location # <<>>
            THEN IF content = <<>> \/ trimmed(content) = <<>>
                 THEN emit_uploadComplete(w, noteId, FALSE)
                 ELSE uploadFileContentToSession(w, reply.location, content,
                                                 title, noteId)
            ELSE IF reply.id # NoId
                 THEN IF content = <<>> \/ trimmed(content) = <<>>
                      THEN emit_uploadComplete(w, noteId, FALSE)
                      ELSE singleShot(w, [Timer("uploadFileContent") EXCEPT
                                              !.fileId = reply.id,
                                              !.content = content,
                                              !.title = title,
                                              !.noteId = noteId])
                 ELSE emit_uploadComplete(w, noteId, FALSE)
       ELSE emit_uploadComplete(w, noteId, FALSE)

\* GoogleDriveManager::handleUploadContentResponse
handleUploadContentResponse(w, req, reply) ==
    emit_uploadComplete(w, IF req.noteId = NoId THEN req.fileId ELSE req.noteId,
                        reply.ok)

\* GoogleDriveManager::handleUploadSessionResponse
handleUploadSessionResponse(w, req, reply) ==
    emit_uploadComplete(w, req.noteId, reply.ok)

\* GoogleDriveManager::handleDownloadResponse
handleDownloadResponse(w, req, reply) ==
    onDownloadComplete(w, req.noteId,
                       IF reply.ok THEN reply.content ELSE <<>>, reply.ok)

\* GoogleDriveManager::handleDeleteResponse
handleDeleteResponse(w, req, reply) == onDeleteComplete(w, req.noteId, reply.ok)

\* GoogleDriveManager::handleListResponse
handleListResponse(w, req, reply) ==
    IF reply.ok THEN emit_notesListReceived(w, reply.files)
    ELSE emit_error(w, <<"Failed to list notes", ": ", reply.errorString>>)

\* GoogleDriveManager::handleCreateFolderResponse
handleCreateFolderResponse(w, req, reply) ==
    IF reply.ok
    THEN emit_syncComplete(
             setSyncFolder([w EXCEPT !.gd.m_syncFolderId = reply.id], reply.id))
    ELSE emit_error(w, <<"Failed to create folder", ": ", reply.errorString>>)

\* GoogleDriveManager::handleCreateSubfolderResponse
handleCreateSubfolderResponse(w, req, reply) ==
    IF reply.ok
    THEN createNextSubfolder(
             [w EXCEPT !.gd.m_subfolderIds = insert(@, reply.name, reply.id),
                       !.gd.m_pendingSubfolderIndex = @ + 1])
    ELSE LET w1 == emit_error(w, <<"Failed to create subfolder", ": ",
                                   reply.errorString>>)
         IN createNextSubfolder(
                [w1 EXCEPT !.gd.m_pendingSubfolderIndex = @ + 1])

\* GoogleDriveManager::handleFindFolderResponse
handleFindFolderResponse(w, req, reply) ==
    IF reply.ok
    THEN IF reply.files # <<>>
         THEN LET folderId == reply.files[1].id
              IN emit_syncComplete(
                     setSyncFolder([w EXCEPT !.gd.m_syncFolderId = folderId],
                                   folderId))
         ELSE createNewNotesFolder(w)
    ELSE emit_error(w, <<"Failed to search for folder", ": ",
                         reply.errorString>>)

RECURSIVE storeSubfolders(_, _, _)
storeSubfolders(w, files, i) ==
    IF i > Len(files) THEN w
    ELSE storeSubfolders(
             [w EXCEPT !.gd.m_remoteFolderIds =
                           insert(@, files[i].name, files[i].id),
                       !.gd.m_subfolderIds =
                           insert(@, files[i].name, files[i].id)],
             files, i + 1)

RECURSIVE listNotesInFolders(_, _, _)
listNotesInFolders(w, folderNames, i) ==
    IF i > Len(folderNames) THEN w
    ELSE listNotesInFolders(
             listNotesInFolder(w,
                 value(w.gd.m_remoteFolderIds, folderNames[i], NoId),
                 folderNames[i]),
             folderNames, i + 1)

\* GoogleDriveManager::handleListSubfoldersResponse
handleListSubfoldersResponse(w, req, reply) ==
    IF reply.ok
    THEN Then([storeSubfolders(w, reply.files, 1) EXCEPT
                   !.gd.m_structureChecked = TRUE],
              LAMBDA w2 :
         Then(listNotesInFolders(w2, keys(w2.gd.m_remoteFolderIds), 1),
              LAMBDA w3 :
                  IF w3.gd.m_pendingFolderStructure # <<>>
                  THEN createNextSubfolder(w3)
                  ELSE w3))
    ELSE emit_error(w, <<"Failed to list subfolders", ": ", reply.errorString>>)

RECURSIVE storeNotes(_, _, _)
storeNotes(w, files, i) ==
    IF i > Len(files) THEN w
    ELSE storeNotes(
             [w EXCEPT !.gd.m_remoteNoteIds =
                           insert(@, TitleOfFileName(files[i].name), files[i].id)],
             files, i + 1)

\* GoogleDriveManager::handleListNotesInFolderResponse
handleListNotesInFolderResponse(w, req, reply) ==
    IF reply.ok
    THEN Then(storeNotes(w, reply.files, 1), LAMBDA w1 :
              IF w1.gd.m_structureChecked /\ w1.gd.m_remoteFolderIds # EmptyMap
              THEN emit_smartSyncComplete(w1)
              ELSE w1)
    ELSE emit_error(w, <<"Failed to list notes in folder", ": ",
                         reply.errorString>>)

-----------------------------------------------------------------------------
(* The remote drive.  It answers one request at a time: the answer is      *)
(* computed from, and its effect applied to, the remote state at the       *)
(* moment the reply is delivered.  Listings are ordered by id.             *)

RECURSIVE ById(_)
ById(S) ==
    IF S = {} THEN <<>>
    ELSE LET x == CHOOSE y \in S : \A z \in S : y.id <= z.id
         IN <<x>> \o ById(S \ {x})

Listing(S) == ById({[id |-> x.id, name |-> x.name] : x \in S})

ChildFolders(rem, parent) == {f \in rem.folders : f.parent = parent}

ChildFiles(rem, parent) == {f \in rem.files : f.parent = parent}

\* the remote state after a successful request
ServerEffect(rem, req) ==
    CASE req.type = "create_folder" ->
           [rem EXCEPT !.roots = @ \cup {[id |-> rem.nextId, name |-> "Notes App"]},
                       !.nextId = @ + 1]
      [] req.type = "create_subfolder" ->
           [rem EXCEPT !.folders = @ \cup {[id |-> rem.nextId,
                                            name |-> req.folderName,
                                            parent |-> req.folderId]},
                       !.nextId = @ + 1]
      [] req.type = "upload_session" /\ req.sessionUrl[3] = NoId ->
           [rem EXCEPT !.files = @ \cup {[id |-> rem.nextId,
                                          name |-> req.sessionUrl[4],
                                          parent |-> req.sessionUrl[2],
                                          body |-> req.content]},
                       !.nextId = @ + 1]
      [] req.type = "upload_session" /\ req.sessionUrl[3] # NoId ->
           [rem EXCEPT !.files =
                {IF f.id = req.sessionUrl[3]
                 THEN [f EXCEPT !.body = req.content] ELSE f : f \in @}]
      [] req.type = "upload_content" ->
           [rem EXCEPT !.files =
                {IF f.id = req.fileId
                 THEN [f EXCEPT !.body = req.content] ELSE f : f \in @}]
      [] req.type = "delete" ->
           [rem EXCEPT !.files = {f \in @ : f.id # req.noteId}]
      [] req.type \in {"auth", "token_refresh"} ->
           [rem EXCEPT !.nextToken = @ + 1]
      [] OTHER -> rem

\* the reply to a successful request
ServerReply(rem, req, keepsRefreshToken) ==
    LET ok == Reply(TRUE, "")
    IN CASE req.type = "find_folder" ->
              [ok EXCEPT !.files = Listing(rem.roots)]
         [] req.type = "create_folder" ->
              [ok EXCEPT !.id = rem.nextId, !.name = "Notes App"]
         [] req.type = "list_subfolders" ->
              [ok EXCEPT !.files = Listing(ChildFolders(rem, req.folderId))]
         [] req.type = "list_notes_in_folder" ->
              [ok EXCEPT !.files = Listing(ChildFiles(rem, req.folderId))]
         [] req.type = "list" ->
              [ok EXCEPT !.files = Listing(ChildFolders(rem, req.folderId)
                                           \cup ChildFiles(rem, req.folderId))]
         [] req.type = "create_subfolder" ->
              [ok EXCEPT !.id = rem.nextId, !.name = req.folderName]
         [] req.type = "upload_metadata" ->
              [ok EXCEPT !.location = <<"session", req.folderId, req.noteId,
                                        FileNameOf(req.title)>>]
         [] req.type = "auth" ->
              [ok EXCEPT !.access_token = rem.nextToken,
                         !.refresh_token = IF keepsRefreshToken THEN NoId
                                           ELSE rem.nextToken]
         [] req.type = "token_refresh" ->
              [ok EXCEPT !.access_token = rem.nextToken]
         [] req.type = "download" ->
              [ok EXCEPT !.content =
                   IF \E f \in rem.files : f.id = req.noteId
                   THEN (CHOOSE f \in rem.files : f.id = req.noteId).body
                   ELSE <<>>]
         [] OTHER -> ok

\* A metadata request answered without a Location header: the file is
\* created empty (POST) or left as it is (PUT) and the body names its id.
PlainEffect(rem, req) ==
    IF req.noteId = NoId
    THEN [rem EXCEPT !.files = @ \cup {[id |-> rem.nextId,
                                        name |-> FileNameOf(req.title),
                                        parent |-> req.folderId,
                                        body |-> <<>>]},
                     !.nextId = @ + 1]
    ELSE rem

PlainReply(rem, req) ==
    [Reply(TRUE, "") EXCEPT
         !.id = IF req.noteId = NoId THEN rem.nextId ELSE req.noteId]

-----------------------------------------------------------------------------
(* Events.  A public call opens a new tag; a reply or a timer runs under   *)
(* the tag of the request or timer that caused it.                         *)

\* the local notes that exist remotely with another body: <<title, id>>
\* of each note of `structure` whose file lies, with a different body, in
\* the remote subfolder named like the note's local folder
ChangedNotes(rem, structure) ==
    {<<TitleOfFileName(f.name), f.id>> : f \in
        {f \in rem.files :
            \E i \in 1..Len(structure) : \E j \in 1..Len(structure[i][2]) :
                /\ f.name = FileNameOf(structure[i][2][j][1])
                /\ f.body # structure[i][2][j][2]
                /\ \E d \in rem.folders :
                       d.id = f.parent /\ d.name = structure[i][1]}}

\* the titles of the local notes that have no file in a remote subfolder
\* named like their local folder
MissingNotes(rem, structure) ==
    UNION {{structure[i][2][j][1] :
               j \in {k \in 1..Len(structure[i][2]) :
                   ~\E f \in rem.files :
                       /\ f.name = FileNameOf(structure[i][2][k][1])
                       /\ \E d \in rem.folders :
                              d.id = f.parent /\ d.name = structure[i][1]}} :
           i \in 1..Len(structure)}

BeginCall(w, kind) ==
    LET t == Len(w.hist.calls) + 1
    IN [w EXCEPT !.hist.calls = Append(@, kind),
                 !.hist.cur = t,
                 !.hist.changed[t] = ChangedNotes(w.remote, w.db),
                 !.hist.missing[t] = MissingNotes(w.remote, w.db),
                 !.hist.rootKnown[t] = w.sm.m_syncFolderId # NoId,
                 !.hist.quiet[t] = /\ w.inflight = EmptyBag
                                   /\ w.timers = EmptyBag
                                   /\ ~w.sm.m_isSyncing,
                 !.budget.calls = @ - 1]

Pending(type) == {req \in BagToSet(inflight) : req.type = type}

\* how the transport can answer a request: the server's answer (a token
\* answer with or without a refresh token, handled at a whole second or
\* not), or a failure
Outcomes(req) ==
    {[ok |-> TRUE, keeps |-> k, plain |-> FALSE, bare |-> FALSE,
      errorString |-> "", ms |-> ms] :
         k \in (IF req.type = "auth" THEN BOOLEAN ELSE {FALSE}),
         ms \in (IF req.type \in {"auth", "token_refresh"}
                 THEN {0, 1} ELSE {0})}
    \cup {[ok |-> TRUE, keeps |-> FALSE, plain |-> TRUE, bare |-> FALSE,
           errorString |-> "", ms |-> 0] :
              x \in (IF req.type = "upload_metadata" /\ budget.plain > 0
                     THEN {0} ELSE {})}
    \cup {[ok |-> TRUE, keeps |-> FALSE, plain |-> FALSE, bare |-> TRUE,
           errorString |-> "", ms |-> 0] :
              x \in (IF req.type = "upload_metadata" /\ budget.bare > 0
                     THEN {0} ELSE {})}
    \cup {[ok |-> FALSE, keeps |-> FALSE, plain |-> FALSE, bare |-> FALSE,
           errorString |-> e, ms |-> 0] :
              e \in (IF budget.fail > 0 THEN ErrorStrings ELSE {})}

\* the requests whose handler reports a failed reply with the signal error
ReportingTypes ==
    {"token_refresh", "list", "create_folder", "create_subfolder",
     "find_folder", "list_subfolders", "list_notes_in_folder"}

\* the QNetworkReply handed to the handler
Answer(rem, req, out) ==
    IF out.ok /\ out.plain THEN PlainReply(rem, req)
    ELSE IF out.ok /\ out.bare THEN Reply(TRUE, "")
    ELSE IF out.ok THEN ServerReply(rem, req, out.keeps)
    ELSE Reply(FALSE, out.errorString)

\* what the answer to a metadata request offers for the content
AnswerKind(reply) ==
    IF ~reply.ok THEN "failed"
    ELSE IF reply.location # <<>> THEN "session"
    ELSE IF reply.id # NoId THEN "file"
    ELSE "nothing"

\* the world in which the handler of the reply runs
Arrive(w, req, out) ==
    LET w1 == [w EXCEPT !.inflight = @ (-) SetToBag({req}),
                        !.hist.cur = req.tag,
                        !.hist.curUpload = req.upload,
                        !.hist.uploads =
                            IF req.type = "upload_metadata"
                            THEN [@ EXCEPT ![req.upload].answer =
                                     AnswerKind(Answer(w.remote, req, out))]
                            ELSE @,
                        !.hist.staleSent =
                            IF req.type = "token_refresh" THEN 0 ELSE @,
                        !.hist.authFailures =
                            IF /\ ~out.ok
                               /\ out.errorString = Err401
                               /\ req.type \in ReportingTypes
                            THEN Append(@, req.type) ELSE @,
                        !.now = out.ms]
    IN IF out.ok /\ out.plain
       THEN [w1 EXCEPT !.remote = PlainEffect(w.remote, req),
                       !.budget.plain = @ - 1]
       ELSE IF out.ok /\ out.bare THEN [w1 EXCEPT !.budget.bare = @ - 1]
       ELSE IF out.ok THEN [w1 EXCEPT !.remote = ServerEffect(w.remote, req)]
       ELSE [w1 EXCEPT !.budget.fail = @ - 1]

-----------------------------------------------------------------------------
(* The note of the model: its title and two bodies.                        *)

Title_P == <<"P">>
Body_v1 == <<"v", "1">>
Body_v2 == <<"v", "2">>

-----------------------------------------------------------------------------
(* Public calls of SyncManager, made by the GUI, and its timers.           *)

CallSyncNow ==
    /\ budget.calls > 0
    /\ Becomes(syncNow(BeginCall(World, "syncNow")))

CallSyncAllNotes ==
    /\ budget.calls > 0
    /\ Becomes(syncAllNotes(BeginCall(World, "syncAllNotes")))

CallSmartSync ==
    /\ budget.calls > 0
    /\ Becomes(SM_smartSync(BeginCall(World, "smartSync")))

\* m_autoSyncTimer times out
AutoSyncTick ==
    /\ sm.m_autoSyncTimer
    /\ budget.calls > 0
    /\ Becomes(performAutoSync(BeginCall(World, "performAutoSync")))

\* the notes of the local store, as <<folderName, title, body>>
NotesIn(i) == {<<db[i][1], db[i][2][j][1], db[i][2][j][2]>> :
                  j \in 1..Len(db[i][2])}

AllLocalNotes == UNION {NotesIn(i) : i \in 1..Len(db)}

CallSyncSingleNote ==
    /\ budget.calls > 0
    /\ \E n \in AllLocalNotes :
          Becomes(SM_syncSingleNote(BeginCall(World, "syncSingleNote"),
                                    NoId, n[3], n[2], n[1]))

CallHandleNoteChanged ==
    /\ budget.calls > 0
    /\ \E n \in AllLocalNotes :
          Becomes(handleNoteChanged(BeginCall(World, "handleNoteChanged"),
                                    NoId, n[3], n[2], n[1]))

CallSetAutoSyncEnabled ==
    /\ budget.calls > 0
    /\ \E enabled \in BOOLEAN :
          Becomes(setAutoSyncEnabled(BeginCall(World, "setAutoSyncEnabled"),
                                     enabled))

CallLogout ==
    /\ budget.calls > 0
    /\ Becomes(SM_logout(BeginCall(World, "logout")))

\* the user pastes the authorization code shown by the browser
CallCompleteOAuth ==
    /\ budget.calls > 0
    /\ Becomes(completeOAuth(BeginCall(World, "completeOAuth"), 1))

\* the single-shot timer of SyncManager::onError fires
FireForceReauthenticate ==
    \E t \in BagToSet(timers) :
        /\ t.kind = "forceReauthenticate"
        /\ Becomes(SM_forceReauthenticate(
               [World EXCEPT !.timers = @ (-) SetToBag({t}),
                             !.hist.cur = t.tag]))

\* the single-shot timer of handleUploadMetadataResponse fires
FireUploadFileContent ==
    \E t \in BagToSet(timers) :
        /\ t.kind = "uploadFileContent"
        /\ Becomes(uploadFileContent(
               [World EXCEPT !.timers = @ (-) SetToBag({t}),
                             !.hist.cur = t.tag,
                             !.hist.curUpload = t.upload],
               t.fileId, t.content, t.title, t.noteId))

(* Public operations of GoogleDriveManager on one note, its refresh timer, *)
(* the clock and the life of the process.                                  *)

\* bodies uploadNote is called with: empty, blank, the title with a space
\* before it, a body
UploadBodies == {<<>>, <<" ">>, <<" ">> \o Title_P, Body_v1}

InvalidBody(content, title) ==
    \/ content = <<>>
    \/ trimmed(content) = <<>>
    \/ trimmed(content) = trimmed(title)

CallUploadNote ==
    /\ budget.calls > 0
    /\ \E content \in UploadBodies :
          Becomes(uploadNote(
              [BeginCall(World, "uploadNote") EXCEPT
                   !.hist.lastUpload = <<content, Title_P>>],
              NoId, content, Title_P))

CallDownloadNote ==
    /\ budget.calls > 0
    /\ \E f \in remote.files :
          Becomes(downloadNote(BeginCall(World, "downloadNote"), f.id))

CallDeleteNote ==
    /\ budget.calls > 0
    /\ \E f \in remote.files :
          Becomes(deleteNote(BeginCall(World, "deleteNote"), f.id))

CallRefreshToken ==
    /\ budget.calls > 0
    /\ Becomes(refreshToken(BeginCall(World, "refreshToken")))

\* m_tokenRefreshTimer times out (every five minutes)
TokenRefreshTick ==
    /\ budget.calls > 0
    /\ Becomes(refreshTokenIfNeeded(BeginCall(World, "refreshTokenIfNeeded")))

\* the clock moves on: an expiry that lay far ahead lies less than 300 s
\* ahead, one that lay less than 300 s ahead has passed
later(at) == IF at = "far" THEN "soon" ELSE "past"

TimePasses ==
    /\ budget.time > 0
    /\ isValid(gd.m_tokenExpiry)
    /\ ~hasPassed(gd.m_tokenExpiry)
    /\ gd' = [gd EXCEPT !.m_tokenExpiry.at = later(@)]
    /\ disk' = [disk EXCEPT !.expiry = IF @ = <<>> THEN @
                                       ELSE <<later(@[1])>>]
    /\ budget' = [budget EXCEPT !.time = @ - 1]
    /\ UNCHANGED <<sm, inflight, timers, remote, db, hist, config>>

(* Replies, routed by requestType (the lambda connected to                 *)
(* QNetworkAccessManager::finished).                                       *)

ReplyAuth ==
    \E req \in Pending("auth") : \E out \in Outcomes(req) :
        Becomes(handleAuthResponse(Arrive(World, req, out), req,
                    Answer(remote, req, out)))

ReplyTokenRefresh ==
    \E req \in Pending("token_refresh") : \E out \in Outcomes(req) :
        Becomes(handleTokenRefresh(Arrive(World, req, out), req,
                    Answer(remote, req, out)))

ReplyUploadMetadata ==
    \E req \in Pending("upload_metadata") : \E out \in Outcomes(req) :
        Becomes(handleUploadMetadataResponse(Arrive(World, req, out), req,
                    Answer(remote, req, out)))

ReplyUploadContent ==
    \E req \in Pending("upload_content") : \E out \in Outcomes(req) :
        Becomes(handleUploadContentResponse(Arrive(World, req, out), req,
                    Answer(remote, req, out)))

ReplyUploadSession ==
    \E req \in Pending("upload_session") : \E out \in Outcomes(req) :
        Becomes(handleUploadSessionResponse(Arrive(World, req, out), req,
                    Answer(remote, req, out)))

ReplyDownload ==
    \E req \in Pending("download") : \E out \in Outcomes(req) :
        Becomes(handleDownloadResponse(Arrive(World, req, out), req,
                    Answer(remote, req, out)))

ReplyDelete ==
    \E req \in Pending("delete") : \E out \in Outcomes(req) :
        Becomes(handleDeleteResponse(Arrive(World, req, out), req,
                    Answer(remote, req, out)))

ReplyList ==
    \E req \in Pending("list") : \E out \in Outcomes(req) :
        Becomes(handleListResponse(Arrive(World, req, out), req,
                    Answer(remote, req, out)))

ReplyCreateFolder ==
    \E req \in Pending("create_folder") : \E out \in Outcomes(req) :
        Becomes(handleCreateFolderResponse(Arrive(World, req, out), req,
                    Answer(remote, req, out)))

ReplyCreateSubfolder ==
    \E req \in Pending("create_subfolder") : \E out \in Outcomes(req) :
        Becomes(handleCreateSubfolderResponse(Arrive(World, req, out), req,
                    Answer(remote, req, out)))

ReplyFindFolder ==
    \E req \in Pending("find_folder") : \E out \in Outcomes(req) :
        Becomes(handleFindFolderResponse(Arrive(World, req, out), req,
                    Answer(remote, req, out)))

ReplyListSubfolders ==
    \E req \in Pending("list_subfolders") : \E out \in Outcomes(req) :
        Becomes(handleListSubfoldersResponse(Arrive(World, req, out), req,
                    Answer(remote, req, out)))

ReplyListNotesInFolder ==
    \E req \in Pending("list_notes_in_folder") : \E out \in Outcomes(req) :
        Becomes(handleListNotesInFolderResponse(Arrive(World, req, out), req,
                    Answer(remote, req, out)))

-----------------------------------------------------------------------------
(* The state after construction.                                           *)

\* a local structure: folder A with note P whose body is its title after
\* a space
TitleAsBody == << <<"A", << <<Title_P, <<" ">> \o Title_P>> >> >> >>

\* local structures of the model
LocalStructures ==
    {<<>>,
     << <<"A", << <<Title_P, Body_v2>> >> >> >>,
     << <<"A", << <<Title_P, Body_v1>> >> >>, <<"B", <<>> >> >>,
     << <<"A", <<>> >>, <<"B", <<>> >>, <<"C", <<>> >> >>,
     TitleAsBody}

\* remote drives of the model: nothing; the root folder only; the root
\* folder with subfolder A holding note P (body v1)
RemoteDrives ==
    {[roots |-> {}, folders |-> {}, files |-> {}, nextId |-> 1, nextToken |-> 2],
     [roots |-> {[id |-> 1, name |-> "Notes App"]}, folders |-> {},
      files |-> {}, nextId |-> 2, nextToken |-> 2],
     [roots |-> {[id |-> 1, name |-> "Notes App"]},
      folders |-> {[id |-> 2, name |-> "A", parent |-> 1]},
      files |-> {[id |-> 3, name |-> FileNameOf(Title_P), parent |-> 2,
                  body |-> Body_v1]},
      nextId |-> 4, nextToken |-> 2]}

\* an environment that sets the two credentials, and no configuration file
CompleteEnvironment ==
    [n \in EnvNames |->
        IF n \in {"GOOGLE_DRIVE_CLIENT_ID", "GOOGLE_DRIVE_CLIENT_SECRET"}
        THEN "env" ELSE Unset]

NoConfigFile == [found |-> FALSE, lines |-> [k \in FileKeys |-> Unset]]

\* MainWindow::setupGoogleDriveSync has loaded the configuration
LoadedConfig ==
    [loadConfig(ConfigLoaderConstructed(CompleteEnvironment, NoConfigFile))
         EXCEPT !.loaded = TRUE]

\* the token file left by an earlier run: a token that is still valid
SavedTokens ==
    [access_token |-> 1, refresh_token |-> 1, expiry |-> <<"far">>]

\* SyncManager::SyncManager (with loadSyncState: no state file yet)
InitSyncManager ==
    [m_isSyncing |-> FALSE, m_autoSyncEnabled |-> FALSE,
     m_autoSyncTimer |-> FALSE, m_lastSyncTime |-> "invalid",
     m_pendingUploads |-> <<>>, m_pendingDownloads |-> <<>>,
     m_pendingDeletes |-> <<>>, m_syncFolderId |-> NoId,
     m_syncCompletedEmitted |-> FALSE]

\* GoogleDriveManager::GoogleDriveManager (with loadTokens); a token file
\* that is missing or holds empty values leaves the members as constructed
InitDriveManager(tokens) ==
    [m_accessToken |-> tokens.access_token,
     m_refreshToken |-> tokens.refresh_token,
     m_tokenExpiry |-> fromString_ISODate(tokens.expiry),
     m_isAuthenticated |-> tokens.access_token # NoId,
     m_syncFolderId |-> NoId, m_subfolderIds |-> EmptyMap,
     m_pendingFolderStructure |-> <<>>, m_pendingSubfolderIndex |-> 0,
     m_remoteNoteHashes |-> EmptyMap, m_remoteNoteIds |-> EmptyMap,
     m_remoteFolderIds |-> EmptyMap, m_structureChecked |-> FALSE]

InitHistory ==
    [cur |-> 0, calls |-> <<>>,
     started |-> [t \in Tags |-> 0], completed |-> [t \in Tags |-> 0],
     failed |-> [t \in Tags |-> 0], completions |-> {}, lastError |-> <<>>,
     issued |-> [t \in Tags |-> <<>>], quiet |-> [t \in Tags |-> FALSE],
     changed |-> [t \in Tags |-> {}], missing |-> [t \in Tags |-> {}],
     rootKnown |-> [t \in Tags |-> FALSE],
     newest |-> 0, authenticationChanged |-> <<>>, browserOpened |-> FALSE,
     reauthRequired |-> FALSE, lastUpload |-> <<>>, authFailures |-> <<>>,
     staleSent |-> 0, uploads |-> <<>>, curUpload |-> 0,
     forced |-> [t \in Tags |-> 0]]

Init ==
    /\ sm = InitSyncManager
    /\ gd = InitDriveManager(SavedTokens)
    /\ inflight = EmptyBag
    /\ timers = EmptyBag
    /\ remote \in RemoteDrives
    /\ db \in LocalStructures
    /\ disk = [access_token |-> SavedTokens.access_token,
               refresh_token |-> SavedTokens.refresh_token,
               expiry |-> SavedTokens.expiry,
               last_sync |-> "invalid", auto_sync_enabled |-> FALSE]
    /\ hist = InitHistory
    /\ budget = [calls |-> MaxCalls, fail |-> MaxFailures, plain |-> 0, bare |-> 0,
                 time |-> 0, restarts |-> 0]
    /\ config = LoadedConfig

Next ==
    \/ CallSyncNow
    \/ CallSyncAllNotes
    \/ CallSmartSync
    \/ AutoSyncTick
    \/ CallSyncSingleNote
    \/ CallHandleNoteChanged
    \/ CallSetAutoSyncEnabled
    \/ CallLogout
    \/ CallCompleteOAuth
    \/ FireForceReauthenticate
    \/ ReplyAuth
    \/ ReplyUploadMetadata
    \/ ReplyUploadSession
    \/ ReplyList
    \/ ReplyCreateFolder
    \/ ReplyCreateSubfolder
    \/ ReplyFindFolder
    \/ ReplyListSubfolders
    \/ ReplyListNotesInFolder

Spec == Init /\ [][Next]_vars

-----------------------------------------------------------------------------
(* The token life cycle: the same program started from any token file, with*)
(* the clock moving, the refresh timer, uploads of one note and restarts.  *)

\* token files an earlier run can leave: none (or one written by logout);
\* a valid token; an expired token with, and without, a refresh token
TokenFiles ==
    {[access_token |-> NoId, refresh_token |-> NoId, expiry |-> <<>>],
     SavedTokens,
     [access_token |-> 1, refresh_token |-> 1, expiry |-> <<"past">>],
     [access_token |-> 1, refresh_token |-> NoId, expiry |-> <<"past">>]}

\* the remote drive: the root folder with subfolder A holding P.md
DriveWithNote ==
    [roots |-> {[id |-> 1, name |-> "Notes App"]},
     folders |-> {[id |-> 2, name |-> "A", parent |-> 1]},
     files |-> {[id |-> 3, name |-> FileNameOf(Title_P), parent |-> 2,
                 body |-> Body_v1]},
     nextId |-> 4, nextToken |-> 2]

\* the application is closed (the destructors save the state) or killed,
\* and started again: requests and timers of the old process are gone
Restart ==
    /\ budget.restarts > 0
    /\ \E closed \in BOOLEAN :
          LET w == IF closed THEN saveTokens(saveSyncState(World)) ELSE World
          IN Becomes([w EXCEPT
                 !.sm = loadSyncState(InitSyncManager, w.disk),
                 !.gd = InitDriveManager(w.disk),
                 !.inflight = EmptyBag,
                 !.timers = EmptyBag,
                 !.budget.restarts = @ - 1])

AuthInit ==
    /\ sm = InitSyncManager
    /\ \E file \in TokenFiles :
          /\ gd = InitDriveManager(file)
          /\ disk = [access_token |-> file.access_token,
                     refresh_token |-> file.refresh_token,
                     expiry |-> file.expiry,
                     last_sync |-> "invalid", auto_sync_enabled |-> FALSE]
    /\ inflight = EmptyBag
    /\ timers = EmptyBag
    /\ remote = DriveWithNote
    /\ db = TitleAsBody
    /\ hist = InitHistory
    /\ budget = [calls |-> MaxCalls, fail |-> MaxFailures,
                 plain |-> MaxPlainReplies, bare |-> 0, time |-> MaxTimeSteps,
                 restarts |-> MaxRestarts]
    /\ config = LoadedConfig

AuthNext ==
    \/ CallUploadNote
    \/ CallDownloadNote
    \/ CallDeleteNote
    \/ CallRefreshToken
    \/ CallLogout
    \/ CallCompleteOAuth
    \/ TokenRefreshTick
    \/ TimePasses
    \/ Restart
    \/ FireForceReauthenticate
    \/ FireUploadFileContent
    \/ ReplyAuth
    \/ ReplyTokenRefresh
    \/ ReplyUploadMetadata
    \/ ReplyUploadContent
    \/ ReplyUploadSession
    \/ ReplyDownload
    \/ ReplyDelete
    \/ ReplyFindFolder

AuthSpec == AuthInit /\ [][AuthNext]_vars

-----------------------------------------------------------------------------
(* Auto-sync after startup: the program with a valid saved token, the GUI  *)
(* switching auto-sync on or off and asking for a full sync, the auto-sync *)
(* timer, and a transport that answers every request in the end.           *)

AutoSyncNext ==
    \/ CallSetAutoSyncEnabled
    \/ AutoSyncTick
    \/ CallSyncAllNotes
    \/ CallCompleteOAuth
    \/ FireForceReauthenticate
    \/ ReplyAuth
    \/ ReplyUploadMetadata
    \/ ReplyUploadSession
    \/ ReplyList
    \/ ReplyCreateFolder
    \/ ReplyCreateSubfolder
    \/ ReplyFindFolder
    \/ ReplyListSubfolders
    \/ ReplyListNotesInFolder

\* every request is answered and every single-shot timer fires
Delivery ==
    /\ WF_vars(FireForceReauthenticate)
    /\ WF_vars(ReplyAuth)
    /\ WF_vars(ReplyUploadMetadata)
    /\ WF_vars(ReplyUploadSession)
    /\ WF_vars(ReplyList)
    /\ WF_vars(ReplyCreateFolder)
    /\ WF_vars(ReplyCreateSubfolder)
    /\ WF_vars(ReplyFindFolder)
    /\ WF_vars(ReplyListSubfolders)
    /\ WF_vars(ReplyListNotesInFolder)

AutoSyncSpec == Init /\ [][AutoSyncNext]_vars /\ Delivery

-----------------------------------------------------------------------------
(* Startup: the program started in any environment, with or without a      *)
(* configuration file, and the sync entry points the GUI then offers.      *)

\* each variable set (text settings to "env", the interval to "30") or not
Environments ==
    {[n \in EnvNames |->
         IF n \notin S THEN Unset
         ELSE IF n = "GOOGLE_DRIVE_SYNC_INTERVAL" THEN "30" ELSE "env"] :
       S \in SUBSET EnvNames}

\* no file, or a file in which each key has a line (text settings "file",
\* the interval "45" or a text that is no number) or not
ConfigFiles ==
    {NoConfigFile} \cup
    {[found |-> TRUE,
      lines |-> [k \in FileKeys |->
                    IF k = "sync_interval" THEN i
                    ELSE IF k \in S THEN "file" ELSE Unset]] :
       S \in SUBSET (FileKeys \ {"sync_interval"}),
       i \in {Unset, "45", "x"}}

\* MainWindow::setupGoogleDriveSync: loadConfig, whose result is only
\* logged, then the SyncManager and its GoogleDriveManager are constructed
setupGoogleDriveSync(w) ==
    [w EXCEPT !.config = [loadConfig(@) EXCEPT !.loaded = TRUE],
              !.sm = loadSyncState(InitSyncManager, w.disk),
              !.gd = InitDriveManager(w.disk)]

Startup ==
    /\ ~config.loaded
    /\ Becomes(setupGoogleDriveSync(World))

ConfigInit ==
    /\ sm = InitSyncManager
    /\ gd = InitDriveManager(SavedTokens)
    /\ inflight = EmptyBag
    /\ timers = EmptyBag
    /\ remote = DriveWithNote
    /\ db = TitleAsBody
    /\ disk = [access_token |-> SavedTokens.access_token,
               refresh_token |-> SavedTokens.refresh_token,
               expiry |-> SavedTokens.expiry,
               last_sync |-> "invalid", auto_sync_enabled |-> FALSE]
    /\ hist = InitHistory
    /\ budget = [calls |-> MaxCalls, fail |-> MaxFailures, plain |-> 0, bare |-> 0,
                 time |-> 0, restarts |-> 0]
    /\ \E env \in Environments : \E file \in ConfigFiles :
          config = ConfigLoaderConstructed(env, file)

ConfigNext ==
    \/ Startup
    \/ config.loaded /\ CallSyncNow
    \/ config.loaded /\ CallSyncAllNotes
    \/ config.loaded /\ CallSmartSync
    \/ config.loaded /\ CallSetAutoSyncEnabled
    \/ config.loaded /\ CallCompleteOAuth

ConfigSpec == ConfigInit /\ [][ConfigNext]_vars

-----------------------------------------------------------------------------
(* Uploads: the program with a valid saved token and one local note; the   *)
(* GUI asks for a full sync first (which finds the root folder) and then   *)
(* uploads the note directly or logs out; the server may answer a metadata *)
(* request with a session location, with a file id only or with neither;   *)
(* the event loop delivers every reply and fires every timer.              *)

UploadInit ==
    /\ sm = InitSyncManager
    /\ gd = InitDriveManager(SavedTokens)
    /\ inflight = EmptyBag
    /\ timers = EmptyBag
    /\ remote \in RemoteDrives
    /\ db = << <<"A", << <<Title_P, Body_v2>> >> >> >>
    /\ disk = [access_token |-> SavedTokens.access_token,
               refresh_token |-> SavedTokens.refresh_token,
               expiry |-> SavedTokens.expiry,
               last_sync |-> "invalid", auto_sync_enabled |-> FALSE]
    /\ hist = InitHistory
    /\ budget = [calls |-> MaxCalls, fail |-> MaxFailures,
                 plain |-> MaxPlainReplies, bare |-> MaxBareReplies,
                 time |-> 0, restarts |-> 0]
    /\ config = LoadedConfig

\* a reply is handed to its handler, or a single-shot timer fires
UploadEvent ==
    \/ FireForceReauthenticate
    \/ FireUploadFileContent
    \/ ReplyUploadMetadata
    \/ ReplyUploadContent
    \/ ReplyUploadSession
    \/ ReplyCreateFolder
    \/ ReplyCreateSubfolder
    \/ ReplyFindFolder
    \/ ReplyListSubfolders
    \/ ReplyListNotesInFolder

UploadNext ==
    \/ hist.calls = <<>> /\ CallSyncAllNotes
    \/ CallUploadNote
    \/ CallLogout
    \/ UploadEvent

\* the event loop does not stall: while a finished reply or a due timer is
\* waiting, one of them is handled
UploadDelivery == WF_vars(UploadEvent)

UploadSpec == UploadInit /\ [][UploadNext]_vars /\ UploadDelivery

-----------------------------------------------------------------------------
(* Termination of a full sync: as for uploads, with any local structure of *)
(* the model (no folder, empty folders, a note whose body is its title, a  *)
(* valid note).                                                            *)

TerminationInit ==
    /\ sm = InitSyncManager
    /\ gd = InitDriveManager(SavedTokens)
    /\ inflight = EmptyBag
    /\ timers = EmptyBag
    /\ remote \in RemoteDrives
    /\ db \in LocalStructures
    /\ disk = [access_token |-> SavedTokens.access_token,
               refresh_token |-> SavedTokens.refresh_token,
               expiry |-> SavedTokens.expiry,
               last_sync |-> "invalid", auto_sync_enabled |-> FALSE]
    /\ hist = InitHistory
    /\ budget = [calls |-> MaxCalls, fail |-> MaxFailures,
                 plain |-> MaxPlainReplies, bare |-> MaxBareReplies,
                 time |-> 0, restarts |-> 0]
    /\ config = LoadedConfig

TerminationSpec == TerminationInit /\ [][UploadNext]_vars /\ UploadDelivery

-----------------------------------------------------------------------------
(* Same-titled notes: the program with a valid saved token and two local   *)
(* folders that each hold a note titled P, a drive whose subfolder A holds *)
(* P.md and that has or has not a subfolder B, full and smart syncs.       *)

\* local folders A and B, each with a note titled P
TwinNotes ==
    << <<"A", << <<Title_P, Body_v2>> >> >>,
       <<"B", << <<Title_P, Body_v1>> >> >> >>

\* the drive with subfolders A (holding P.md) and B (empty)
DriveWithTwoFolders ==
    [DriveWithNote EXCEPT
         !.folders = @ \cup {[id |-> 4, name |-> "B", parent |-> 1]},
         !.nextId = 5]

TwinInit ==
    /\ sm = InitSyncManager
    /\ gd = InitDriveManager(SavedTokens)
    /\ inflight = EmptyBag
    /\ timers = EmptyBag
    /\ remote \in {DriveWithNote, DriveWithTwoFolders}
    /\ db = TwinNotes
    /\ disk = [access_token |-> SavedTokens.access_token,
               refresh_token |-> SavedTokens.refresh_token,
               expiry |-> SavedTokens.expiry,
               last_sync |-> "invalid", auto_sync_enabled |-> FALSE]
    /\ hist = InitHistory
    /\ budget = [calls |-> MaxCalls, fail |-> 0, plain |-> 0, bare |-> 0,
                 time |-> 0, restarts |-> 0]
    /\ config = LoadedConfig

TwinNext ==
    \/ CallSyncAllNotes
    \/ CallSmartSync
    \/ ReplyUploadMetadata
    \/ ReplyUploadSession
    \/ ReplyCreateSubfolder
    \/ ReplyFindFolder
    \/ ReplyListSubfolders
    \/ ReplyListNotesInFolder

TwinSpec == TwinInit /\ [][TwinNext]_vars

-----------------------------------------------------------------------------
(* Authentication errors during a listing: one smartSync over a drive with *)
(* two subfolders, whose listings are both in flight at the same time, a   *)
(* transport that may reject two replies, and the user completing the      *)
(* code exchange the forced re-authentication asks for.                    *)

\* how many replies the transport may reject in this scenario
MaxAuthErrors == 2

ReauthInit ==
    /\ sm = InitSyncManager
    /\ gd = InitDriveManager(SavedTokens)
    /\ inflight = EmptyBag
    /\ timers = EmptyBag
    /\ remote = DriveWithTwoFolders
    /\ db = <<>>
    /\ disk = [access_token |-> SavedTokens.access_token,
               refresh_token |-> SavedTokens.refresh_token,
               expiry |-> SavedTokens.expiry,
               last_sync |-> "invalid", auto_sync_enabled |-> FALSE]
    /\ hist = InitHistory
    /\ budget = [calls |-> MaxCalls, fail |-> MaxAuthErrors, plain |-> 0,
                 bare |-> 0, time |-> 0, restarts |-> 0]
    /\ config = LoadedConfig

ReauthNext ==
    \/ CallSmartSync
    \/ CallCompleteOAuth
    \/ FireForceReauthenticate
    \/ ReplyAuth
    \/ ReplyFindFolder
    \/ ReplyListSubfolders
    \/ ReplyListNotesInFolder

ReauthSpec == ReauthInit /\ [][ReauthNext]_vars

-----------------------------------------------------------------------------
(* The properties.  Helper definitions first.                              *)

SyncKinds == {"syncNow", "syncAllNotes", "smartSync", "performAutoSync"}

SyncInvocations == {"syncNow", "syncAllNotes", "smartSync"}

\* the invocations that run the reconciler over the local structure
FullSyncs == {"syncAllNotes", "smartSync"}

Calls == 1..Len(hist.calls)

\* this step is a public call that asks for a sync
SyncRequested ==
    /\ Len(hist'.calls) = Len(hist.calls) + 1
    /\ hist'.calls[Len(hist'.calls)] \in SyncKinds

\* call t is the latest call and nothing it has caused is still pending
Over(t) ==
    /\ t = Len(hist.calls)
    /\ \A r \in BagToSet(inflight) : r.tag # t
    /\ \A x \in BagToSet(timers) : x.tag # t

\* no reply has failed so far
NoTransportFailure == budget.fail = MaxFailures

CreateRequests == Pending("create_subfolder")

Issued(t, type) == SelectSeq(hist.issued[t], LAMBDA e : e.type = type)

UploadsOf(t, title, method) ==
    SelectSeq(hist.issued[t],
              LAMBDA e : /\ e.type = "upload_metadata"
                         /\ e.name = title
                         /\ e.method = method)

\* position of a folder name in the local structure (0: not there)
PositionOf(name) ==
    IF \E i \in 1..Len(db) : <<db[i][1]>> = name
    THEN CHOOSE i \in 1..Len(db) : <<db[i][1]>> = name
    ELSE 0

\* C1: while isSyncing is true, a request to start another sync (syncNow,
\* syncAllNotes, smartSync, an auto-sync tick) is rejected: it issues no
\* remote request and leaves the drive manager's structure state unchanged.
C1_ReentrantSyncRejected ==
    [][(sm.m_isSyncing /\ SyncRequested)
          => /\ inflight' = inflight
             /\ StructureState(gd') = StructureState(gd)]_vars

\* C2: no create-subfolder request is in flight for a folder name that
\* exists under the root remotely, or twice for one name, and the remote
\* root never holds two subfolders of the same name.
C2_NoDuplicateSubfolder ==
    /\ \A r \in CreateRequests :
          /\ CopiesIn(r, inflight) = 1
          /\ \A q \in CreateRequests :
                (q.folderName = r.folderName /\ q.folderId = r.folderId)
                    => q = r
          /\ \A d \in remote.folders :
                ~(d.name = r.folderName /\ d.parent = r.folderId)
    /\ \A d, e \in remote.folders :
          (d.name = e.name /\ d.parent = e.parent) => d = e

\* C3: a second full sync, started when the first has completed without a
\* failure and nothing is pending, with the local structure unchanged,
\* issues no create-subfolder and no note create or update request.
C3_SecondRunIssuesNothing ==
    \A t \in Calls :
        (/\ t > 1
         /\ hist.calls[t - 1] = "syncAllNotes"
         /\ hist.calls[t] = "syncAllNotes"
         /\ hist.quiet[t]
         /\ hist.completed[t - 1] > 0
         /\ hist.failed[t - 1] = 0
         /\ NoTransportFailure)
            => hist.issued[t] = <<>>

\* C4: a sync invocation (syncNow, syncAllNotes, smartSync) started while
\* nothing else is going on emits syncCompleted at most once, and exactly
\* once when everything it caused has been answered without a failure and
\* no other call was made meanwhile.
C4_CompletedExactlyOnce ==
    \A t \in Calls :
        (hist.calls[t] \in SyncInvocations /\ hist.quiet[t])
            => /\ hist.completed[t] <= 1
               /\ (Over(t) /\ hist.failed[t] = 0 /\ NoTransportFailure)
                      => hist.completed[t] = 1

\* C5: at most one create-subfolder request is in flight at any time, and
\* the create requests of a sync are issued in the order of the local
\* folders.
C5_SequentialSubfolderCreation ==
    /\ CountInFlight(inflight, {"create_subfolder"}) <= 1
    /\ \A t \in Calls :
          LET creates == Issued(t, "create_subfolder")
          IN \A i, j \in 1..Len(creates) :
                i < j => PositionOf(creates[i].name) < PositionOf(creates[j].name)

\* C6: in every sync, each create-subfolder and note upload request is
\* issued only when the subfolder listing has been received and no listing
\* request is still unanswered.
C6_DiscoveryPrecedesMutation ==
    \A t \in Calls :
        hist.calls[t] \in SyncKinds
            => \A i \in 1..Len(hist.issued[t]) : hist.issued[t][i].discovered

\* C7: when a full sync starts while a local note T lies in its remote
\* subfolder with another body, the sync issues no create (POST) for T,
\* every update (PUT) for T carries T's remote id, there is at most one,
\* and exactly one when the sync is over without a failure and no other
\* call was made meanwhile.
C7_ChangedNoteUpdatedInPlace ==
    \A t \in Calls :
        (hist.calls[t] \in FullSyncs /\ hist.quiet[t])
            => \A n \in hist.changed[t] :
                   LET puts == UploadsOf(t, n[1], "PUT")
                   IN /\ UploadsOf(t, n[1], "POST") = <<>>
                      /\ \A i \in 1..Len(puts) : puts[i].noteId = n[2]
                      /\ Len(puts) <= 1
                      /\ (Over(t) /\ hist.failed[t] = 0 /\ NoTransportFailure)
                             => Len(puts) = 1

\* C8: whenever syncCompleted is emitted, no request of that sync is still
\* in flight and isSyncing is false.
C8_CompletedAfterMutationPhase ==
    \A c \in hist.completions : ~c.isSyncing /\ c.pending = {}

\* a request of an earlier sync call than the one that last reset the
\* structure state
Abandoned(r) ==
    /\ r.tag >= 1
    /\ r.tag < hist.newest
    /\ hist.calls[r.tag] \in SyncKinds

\* C9: the completion of a request of an abandoned sync, delivered after
\* the structure state was reset for a new sync, leaves the maps, the
\* structureChecked flag, the pending structure and the cursor unchanged
\* and sends no request.
C9_StaleCompletionsInert ==
    [][\A r \in BagToSet(inflight) :
          (Abandoned(r) /\ CopiesIn(r, inflight') < CopiesIn(r, inflight))
              => /\ StructureState(gd') = StructureState(gd)
                 /\ inflight' = inflight (-) SetToBag({r})]_vars

\* C10: once syncFailed has been emitted for a sync, that sync issues no
\* further create-subfolder or note upload request.
C10_FailureIsTerminal ==
    \A t \in Calls :
        hist.calls[t] \in SyncKinds
            => \A i \in 1..Len(hist.issued[t]) : ~hist.issued[t][i].afterFail

-----------------------------------------------------------------------------
(* Properties of uploads and of the token life cycle.                      *)

\* this step is the public call `kind`
Called(kind) ==
    /\ Len(hist'.calls) = Len(hist.calls) + 1
    /\ hist'.calls[Len(hist'.calls)] = kind

\* C11: uploadNote called with an empty body, a blank body or a body whose
\* trimmed text is the trimmed title sends no request of any kind and
\* reports an error, whatever the token state.
C11_InvalidUploadStaysLocal ==
    [][(Called("uploadNote")
            /\ InvalidBody(hist'.lastUpload[1], hist'.lastUpload[2]))
          => /\ inflight' = inflight
             /\ hist'.failed[Len(hist'.calls)] > 0]_vars

UploadTypes == {"upload_metadata", "upload_content", "upload_session"}

\* C12: a note whose trimmed body is its trimmed title is never uploaded:
\* no upload request carries such a body and no remote file holds one.
C12_TitleAsBodyNeverUploaded ==
    /\ \A r \in BagToSet(inflight) :
          r.type \in UploadTypes => trimmed(r.content) # trimmed(r.title)
    /\ \A f \in remote.files :
          trimmed(f.body) # trimmed(TitleOfFileName(f.name))

\* the requests of the remote operations (all but the token requests)
RemoteOperations ==
    {"list", "find_folder", "create_folder", "create_subfolder",
     "list_subfolders", "list_notes_in_folder", "download", "delete"}
        \cup UploadTypes

\* this step adds no request of `types` satisfying keep to those in flight
SendsNone(types, authenticatedOnly) ==
    \A r \in BagToSet(inflight') :
        (r.type \in types /\ (authenticatedOnly => r.token # NoId))
            => CopiesIn(r, inflight') <= CopiesIn(r, inflight)

\* C13: while there is no access token, no step sends a request of a
\* remote operation, a later step of an upload begun earlier included.
C13_NoRequestWithoutToken ==
    [][(gd.m_accessToken = NoId /\ gd'.m_accessToken = NoId)
          => SendsNone(RemoteOperations, FALSE)]_vars

\* C14: the access token is empty exactly when the client is not
\* authenticated.
C14_TokenEmptyIffNotAuthenticated ==
    (gd.m_accessToken = NoId) <=> ~isAuthenticated(World)

\* C15: between actions the token file holds the tokens and the expiry of
\* the members, so that loadTokens would restore them exactly.
C15_TokenFileEqualsMemory ==
    /\ disk.access_token = gd.m_accessToken
    /\ disk.refresh_token = gd.m_refreshToken
    /\ fromString_ISODate(disk.expiry) = gd.m_tokenExpiry

\* C15, amended: between actions the token file holds the tokens of the
\* members and their expiry written to the whole second.
C15_TokenFileEqualsMemoryToTheSecond ==
    /\ disk.access_token = gd.m_accessToken
    /\ disk.refresh_token = gd.m_refreshToken
    /\ disk.expiry = toString_ISODate(gd.m_tokenExpiry)

\* a token was obtained at an instant that is no whole second, and saved
C15_Witness ==
    /\ gd.m_accessToken > 1
    /\ gd.m_tokenExpiry.ms = 1
    /\ disk.access_token = gd.m_accessToken

\* this step delivers a successful reply to a request of `type`
Succeeded(type) ==
    /\ \E r \in Pending(type) : CopiesIn(r, inflight') < CopiesIn(r, inflight)
    /\ budget'.fail = budget.fail
    /\ budget'.restarts = budget.restarts

\* C16: after a successful code exchange the refresh token is the one of
\* the response or, when the response carries none, the one held before.
C16_RefreshTokenKept ==
    [][Succeeded("auth")
          => gd'.m_refreshToken \in {gd.m_refreshToken, remote.nextToken}]_vars

\* C17: refreshToken called while the refresh token is empty reports the
\* no-refresh-token error, sends nothing and leaves the access token and
\* the expiry as they were.
C17_RefreshWithoutRefreshTokenFails ==
    [][(Called("refreshToken") /\ gd.m_refreshToken = NoId)
          => /\ inflight' = inflight
             /\ gd'.m_accessToken = gd.m_accessToken
             /\ gd'.m_tokenExpiry = gd.m_tokenExpiry
             /\ hist'.failed[Len(hist'.calls)] = 1
             /\ hist'.lastError =
                    makeUserFriendlyError(<<"No refresh token available">>)]_vars

\* refreshToken was called without a refresh token, while an access token
\* was held
C17_Witness ==
    /\ hist.calls # <<>>
    /\ hist.calls[Len(hist.calls)] = "refreshToken"
    /\ hist.failed[Len(hist.calls)] = 1
    /\ gd.m_refreshToken = NoId
    /\ gd.m_accessToken # NoId
    /\ inflight = EmptyBag

\* C18: a successful token refresh stores the new access token and leaves
\* the refresh token, the authentication flag, the root folder id and the
\* structure state as they were; it sends nothing.
C18_RefreshSuccessFrame ==
    [][Succeeded("token_refresh")
          => /\ gd'.m_accessToken = remote.nextToken
             /\ gd'.m_refreshToken = gd.m_refreshToken
             /\ gd'.m_isAuthenticated = gd.m_isAuthenticated
             /\ gd'.m_syncFolderId = gd.m_syncFolderId
             /\ StructureState(gd') = StructureState(gd)
             /\ sm' = sm
             /\ timers' = timers
             /\ SendsNone(RemoteOperations \cup {"auth", "token_refresh"},
                          FALSE)]_vars

\* a refresh has replaced the access token of the token file (no code
\* exchange has taken place)
C18_Witness ==
    /\ gd.m_accessToken > 1
    /\ gd.m_refreshToken = 1
    /\ hist.authenticationChanged = <<>>

\* C19: from a failed token refresh until the next successful code
\* exchange, isAuthenticated() is false, authenticationChanged(false) has
\* been emitted and no step sends an authenticated request.
C19_RefreshFailureRequiresCodeExchange ==
    [][hist'.reauthRequired
          => /\ ~(gd'.m_isAuthenticated /\ gd'.m_accessToken # NoId)
             /\ \E i \in 1..Len(hist'.authenticationChanged) :
                    ~hist'.authenticationChanged[i]
             /\ hist.reauthRequired => SendsNone(RemoteOperations, TRUE)]_vars

\* how many forced re-authentications are scheduled
ForceReauthTimers(bag) ==
    LET RECURSIVE Sum(_)
        Sum(S) == IF S = {} THEN 0
                  ELSE LET t == CHOOSE x \in S : TRUE
                       IN CopiesIn(t, bag) + Sum(S \ {t})
    IN Sum({t \in BagToSet(bag) : t.kind = "forceReauthenticate"})

\* C20: every step in which an authentication failure reaches the
\* orchestrator (a reply rejected as unauthorized, a rejected token
\* refresh, an expired token without a refresh token) schedules a forced
\* re-authentication.
C20_AuthFailureSchedulesReauth ==
    [][hist'.authFailures # hist.authFailures
          => ForceReauthTimers(timers') > ForceReauthTimers(timers)]_vars

\* C21: while the access token has expired and a refresh is under way, at
\* most one authenticated request has been sent with the expired token.
C21_OneStaleRequestPerRefresh == hist.staleSent <= 1

\* the first thing that happened after startup was that auto-sync was
\* started, and it started a sync (the saved token was accepted)
AutoSyncStartedAtStartup ==
    /\ Len(hist.calls) >= 1
    /\ hist.calls[1] = "setAutoSyncEnabled"
    /\ hist.started[1] > 0

\* C22: a sync started by auto-sync at startup with the saved token comes
\* to an end: isSyncing becomes false again.
C22_StartupAutoSyncReturnsToIdle ==
    AutoSyncStartedAtStartup ~> ~sm.m_isSyncing

C24_InvalidConfigBlocksSync ==
    (config.loaded /\ (config.m_clientId = "" \/ config.m_clientSecret = ""))
        => inflight = EmptyBag

\* the value a setting resolves to when looked up in the environment first,
\* then in the configuration file, then among the defaults
Layered(name, key, defaultValue) ==
    IF config.env[name] # Unset THEN config.env[name]
    ELSE IF config.file.found /\ config.file.lines[key] # Unset
    THEN config.file.lines[key]
    ELSE defaultValue

\* C25: after loadConfig each of the six settings holds the value of the
\* environment if set there, else that of the configuration file if set
\* there, else the default, and the result is true exactly when all six are
\* complete.
C25_SettingsResolvedInLayers ==
    config.loaded =>
        /\ config.m_clientId =
               Layered("GOOGLE_DRIVE_CLIENT_ID", "client_id", "")
        /\ config.m_clientSecret =
               Layered("GOOGLE_DRIVE_CLIENT_SECRET", "client_secret", "")
        /\ config.m_redirectUri =
               Layered("GOOGLE_DRIVE_REDIRECT_URI", "redirect_uri",
                       "urn:ietf:wg:oauth:2.0:oob")
        /\ config.m_scope =
               Layered("GOOGLE_DRIVE_SCOPE", "scope",
                       "https://www.googleapis.com/auth/drive.file")
        /\ config.m_syncInterval =
               toInt(Layered("GOOGLE_DRIVE_SYNC_INTERVAL", "sync_interval",
                             "15"))
        /\ config.m_syncFolderName =
               Layered("GOOGLE_DRIVE_SYNC_FOLDER", "sync_folder", "Notes App")
        /\ config.m_isValid <=>
               /\ config.m_clientId # ""
               /\ config.m_clientSecret # ""
               /\ config.m_redirectUri # ""
               /\ config.m_scope # ""
               /\ config.m_syncInterval > 0
               /\ config.m_syncFolderName # ""

\* every local note has a body that passes the validation of uploads
LocalNotesValid == \A n \in AllLocalNotes : ~InvalidBody(n[3], n[2])

\* C26: when a smart sync that was started with the root folder known and
\* nothing else going on, and that met no failure, reports completion, it
\* has issued a create request for every (valid) local note that was
\* missing remotely and an update request for every local note whose remote
\* body differed.
C26_SmartSyncUploadsWhatDiffers ==
    \A t \in Calls :
        (/\ hist.calls[t] = "smartSync"
         /\ LocalNotesValid
         /\ hist.rootKnown[t]
         /\ hist.quiet[t]
         /\ hist.failed[t] = 0
         /\ hist.completed[t] > 0)
            => /\ \A title \in hist.missing[t] :
                     UploadsOf(t, title, "POST") # <<>>
               /\ \A n \in hist.changed[t] :
                     UploadsOf(t, n[1], "PUT") # <<>>

\* the local folders that hold a note of this title
FoldersOf(title) == {n[1] : n \in {m \in AllLocalNotes : m[2] = title}}

\* the positions in the requests of call t of the uploads, and of the
\* create-subfolder requests for one folder
UploadPositions(t) ==
    {k \in 1..Len(hist.issued[t]) : hist.issued[t][k].type = "upload_metadata"}

CreatePositions(t, folderName) ==
    {k \in 1..Len(hist.issued[t]) :
        /\ hist.issued[t][k].type = "create_subfolder"
        /\ hist.issued[t][k].name = <<folderName>>}

\* C27: in every full sync each note upload carries as parent the id of a
\* remote subfolder named like the note's local folder, it is issued after
\* the create-subfolder request of that folder if the sync created it, and
\* no note is uploaded twice; and once a sync that ran alone and reported no
\* failure is over, every note of a folder it created has been uploaded.
C27_NotesFollowTheirFolder ==
    \A t \in Calls :
        hist.calls[t] \in FullSyncs =>
            /\ \A k \in UploadPositions(t) :
                  LET e == hist.issued[t][k]
                  IN /\ \E d \in remote.folders :
                            /\ d.id = e.parent
                            /\ d.name \in FoldersOf(e.name)
                     /\ \A name \in FoldersOf(e.name) :
                            \A c \in CreatePositions(t, name) : c < k
                     /\ \A j \in UploadPositions(t) :
                            hist.issued[t][j].name = e.name => j = k
            /\ (Over(t) /\ hist.quiet[t] /\ hist.failed[t] = 0) =>
                  \A n \in AllLocalNotes :
                      CreatePositions(t, n[1]) # {} =>
                          \E k \in UploadPositions(t) :
                              hist.issued[t][k].name = n[2]

\* the titles for which call t issued a note create or update
UploadedTitles(t) == {hist.issued[t][k].name : k \in UploadPositions(t)}

\* C28: when a full sync has issued a create or update for a title and has
\* completed without a failure, the next full sync, started with nothing
\* pending and with the local body unchanged, issues no request for that
\* title: the decision finds the hash cached by the first one.
C28_DecidedNoteNotUploadedAgain ==
    \A t \in Calls :
        (/\ t > 1
         /\ hist.calls[t - 1] \in FullSyncs
         /\ hist.calls[t] \in FullSyncs
         /\ hist.quiet[t]
         /\ hist.completed[t - 1] > 0
         /\ hist.failed[t - 1] = 0
         /\ NoTransportFailure)
            => UploadedTitles(t - 1) \cap UploadedTitles(t) = {}

\* what m_remoteNoteHashes may hold for the note of the model
HashCaches ==
    {EmptyMap} \cup {[k \in {Title_P} |-> calculateFileHash(b)] :
                        b \in {Body_v1, Body_v2}}

\* the note create/update requests that w2 has in flight and w has not
NewUploads(w, w2) ==
    {r \in BagToSet(w2.inflight (-) w.inflight) : r.type = "upload_metadata"}

\* what startNoteUploads does in state w for the local note n
\* (folder, title, body) when it runs with hash cache h
DecisionFollowsTable(n, h) ==
    LET folderName == n[1]
        title == n[2]
        content == n[3]
        w == [World EXCEPT !.gd.m_remoteNoteHashes = h,
                           !.gd.m_pendingFolderStructure =
                               getFolderStructure(World)]
        w2 == startNoteUploads(w)
        new == {r \in NewUploads(w, w2) : r.title = title}
        One(method, noteId) ==
            /\ \E r \in new :
                  /\ new = {r}
                  /\ CopiesIn(r, w2.inflight (-) w.inflight) = 1
                  /\ r.method = method
                  /\ r.noteId = noteId
                  /\ r.folderId = w.gd.m_subfolderIds[folderName]
                  /\ r.content = content
    IN IF ~contains(w.gd.m_subfolderIds, folderName) THEN new = {}
       ELSE IF ~contains(w.gd.m_remoteNoteIds, title) THEN One("POST", NoId)
       ELSE IF value(h, title, <<>>) # calculateFileHash(content)
       THEN One("PUT", w.gd.m_remoteNoteIds[title])
       ELSE new = {}

UploadFollowsProtocol(u) ==
    LET up == hist.uploads[u]
    IN /\ Len(up.puts) <= 1
       /\ up.done <= 1
       /\ \A k \in 1..Len(up.puts) :
             /\ up.puts[k].after = up.answer
             /\ up.answer = "session" =>
                   /\ up.puts[k].type = "upload_session"
                   /\ up.puts[k].token = NoId
             /\ up.answer = "file" => up.puts[k].type = "upload_content"
             /\ up.answer \in {"session", "file"}

UploadStarted(u) == Len(hist.uploads) >= u

UploadEnded(u) == Len(hist.uploads) >= u /\ hist.uploads[u].done = 1

\* C30: every upload whose metadata request was sent (it passed the local
\* validation) follows the two-phase protocol: a content PUT only after a
\* successful metadata answer, to the session location without an auth
\* header if one was returned, else to the file if an id was returned, else
\* none; at most one content PUT; and it ends in exactly one uploadComplete.
C30_TwoPhaseUpload ==
    /\ [](\A u \in 1..Len(hist.uploads) : UploadFollowsProtocol(u))
    /\ \A u \in 1..MaxCalls : UploadStarted(u) ~> UploadEnded(u)

\* an upload was answered with a file id only, has sent its one content PUT
\* to that file and has ended in one uploadComplete
C30_Witness ==
    \E u \in 1..Len(hist.uploads) :
        /\ hist.uploads[u].done = 1
        /\ Len(hist.uploads[u].puts) = 1
        /\ hist.uploads[u].answer = "file"

\* the calls that sync one note
SingleNoteSyncs == {"syncSingleNote", "handleNoteChanged"}

\* C31: when a sync of one (valid) note that was started with nothing else
\* going on has issued a create-subfolder request, and everything it caused
\* has been answered without a failure, it has issued the upload of the note.
C31_SingleNoteUploadedAfterFolderCreation ==
    \A t \in Calls :
        (/\ hist.calls[t] \in SingleNoteSyncs
         /\ LocalNotesValid
         /\ hist.quiet[t]
         /\ Over(t)
         /\ hist.failed[t] = 0
         /\ NoTransportFailure
         /\ \E k \in 1..Len(hist.issued[t]) :
                hist.issued[t][k].type = "create_subfolder")
            => UploadPositions(t) # {}

\* C32: at most one create-root-folder request is in flight, and the drive
\* never holds two root folders "Notes App", also when several lookups of
\* the root folder are in flight at once.
C32_RootFolderCreatedOnce ==
    /\ CountInFlight(inflight, {"create_folder"}) <= 1
    /\ Cardinality(remote.roots) <= 1

\* C33: every note update (an upload that names a remote file id) carries
\* as parent the folder in which that remote file lies: a note of folder F
\* is never written onto the file of a same-titled note of another folder.
C33_UpdateStaysInItsFolder ==
    \A t \in Calls : \A k \in UploadPositions(t) :
        LET e == hist.issued[t][k]
        IN e.noteId # NoId =>
               \E f \in remote.files : f.id = e.noteId /\ f.parent = e.parent

\* a full sync was asked for and isSyncing is set
FullSyncRunning ==
    /\ \E t \in Calls : hist.calls[t] = "syncAllNotes"
    /\ sm.m_isSyncing

\* isSyncing is cleared and the full sync has reported an outcome
FullSyncEnded ==
    /\ ~sm.m_isSyncing
    /\ \E t \in Calls : /\ hist.calls[t] = "syncAllNotes"
                        /\ hist.completed[t] + hist.failed[t] > 0

\* C34: whenever a full sync has set isSyncing, and every request is
\* answered in the end, isSyncing becomes false again and syncCompleted or
\* syncFailed has been emitted.
C34_FullSyncTerminates == FullSyncRunning ~> FullSyncEnded

\* the local note n (folder, title, body) lies unchanged in remote folder d
UnchangedIn(n, d) ==
    \E f \in remote.files :
        /\ f.parent = d.id
        /\ f.name = FileNameOf(n[2])
        /\ f.body = n[3]

\* C35: when a full sync that was started with nothing else going on is
\* over without a failure, every valid local note whose folder exists
\* remotely (found or created) has got a create or update request into that
\* folder, or lies there unchanged.
C35_EveryNoteOfAFolderDecided ==
    \A t \in Calls :
        (/\ hist.calls[t] \in FullSyncs
         /\ LocalNotesValid
         /\ hist.quiet[t]
         /\ Over(t)
         /\ hist.failed[t] = 0)
            => \A n \in AllLocalNotes : \A d \in remote.folders :
                   d.name = n[1] =>
                       \/ UnchangedIn(n, d)
                       \/ \E k \in UploadPositions(t) :
                              /\ hist.issued[t][k].name = n[2]
                              /\ hist.issued[t][k].parent = d.id

\* C36: at most one token-refresh request is in flight at any time.
C36_OneRefreshInFlight == CountInFlight(inflight, {"token_refresh"}) <= 1

\* C37: a sync invocation that was started with nothing else going on, and
\* during which no other call is made, never reports both syncCompleted and
\* syncFailed, and while requests of it are still in flight after an error,
\* isSyncing is still set.
C37_OneOutcomePerSync ==
    \A t \in Calls :
        (/\ hist.calls[t] \in SyncInvocations
         /\ hist.quiet[t]
         /\ t = Len(hist.calls))
            => /\ ~(hist.completed[t] > 0 /\ hist.failed[t] > 0)
               /\ (/\ hist.failed[t] > 0
                   /\ \E r \in BagToSet(inflight) : r.tag = t)
                      => sm.m_isSyncing

\* C38: for every sync invocation, at most one forced re-authentication is
\* executed, however many authentication errors of that sync reached
\* onError.
C38_ForcedReauthOneShot ==
    \A t \in Calls : hist.calls[t] \in SyncKinds => hist.forced[t] <= 1

\* this step is a call of setAutoSyncEnabled
AutoSyncPreferenceSet ==
    /\ Len(hist'.calls) = Len(hist.calls) + 1
    /\ hist'.calls[Len(hist'.calls)] = "setAutoSyncEnabled"

\* this step reports a successful authentication
AuthenticationGained ==
    /\ Len(hist'.authenticationChanged) > Len(hist.authenticationChanged)
    /\ hist'.authenticationChanged[Len(hist'.authenticationChanged)]

\* C39: the auto-sync preference is changed by setAutoSyncEnabled only (so
\* it survives the loss of authentication), a step that reports a
\* successful authentication while auto-sync is enabled leaves the timer
\* running, and the timer runs only while auto-sync is enabled.
C39_AutoSyncPreferenceSurvives ==
    [][/\ sm'.m_autoSyncEnabled # sm.m_autoSyncEnabled
          => AutoSyncPreferenceSet
       /\ (AuthenticationGained /\ sm.m_autoSyncEnabled)
          => sm'.m_autoSyncTimer
       /\ sm'.m_autoSyncTimer => sm'.m_autoSyncEnabled]_vars

====
